---- MODULE Spec2Model ----
(***************************************************************************)
(* Model of src/bot.py: a Telegram moderation bot.  The state is the        *)
(* module-level caches, the tables of the PostgreSQL store, the live title  *)
(* and photo of each chat on the platform, and a record of what the last    *)
(* handler run and the current sweep of the channel job did.                *)
(***************************************************************************)
EXTENDS Integers, Sequences, FiniteSets, TLC

\* ---------------------------------------------------------------- identities
\* User ids are 1..MaxUserId.  The owner and this bot have the ids below;
\* accounts from BOT_ID upwards are bot accounts (from_user.is_bot).
MaxUserId == 4
OWNER_ID == 1
BOT_ID == 3
\* "no value" of an optional id (Python None); ids are never 0.
None == 0

UserIds == 1..MaxUserId
IsBotAccount(u) == u >= BOT_ID
BotAccounts == {u \in UserIds : IsBotAccount(u)}

\* Chats the platform delivers updates from.  Group-like chats have negative
\* ids, a private chat has the id of its user.
Chats == {-1, -2, 2}
ChatType(c) == IF c = -1 THEN "supergroup" ELSE IF c = -2 THEN "channel" ELSE "private"
GroupKinds == {"group", "supergroup"}
GroupOrChannelKinds == {"group", "supergroup", "channel"}
TitledChats == {c \in Chats : ChatType(c) \in GroupOrChannelKinds}

\* Chat titles; "" is the absent (or empty) title, falsy in Python.
Titles == {"A", "B"}
NoTitle == ""

\* ---------------------------------------------------------------- state
VARIABLES
    muted_cache,            \* set of ids                     (bot.py:32)
    banned_cache,           \* set of ids                     (bot.py:33)
    bot_muted_chats_cache,  \* set of chat ids                (bot.py:34)
    locked_info_cache,      \* chat id -> [title, photo_file_id] (bot.py:37)
    no_photo_chats_cache,   \* set of chat ids                (bot.py:40)
    broadcast_lock_global,  \* BOOLEAN                        (bot.py:43)
    clean_info_global,      \* BOOLEAN                        (bot.py:46)
    watch_chats,            \* set of chat ids                (bot.py:52)
    watch_left,             \* chat id -> remaining reports   (bot.py:53)
    db,                     \* the store: one field per table (bot.py:57-140)
    chat_title,             \* live title of each titled chat (platform)
    chat_photo,             \* does the chat have a photo     (platform)
    run,                    \* the last handler run: handler, update, rules, calls,
                            \*   and the tables it selected from the store
    job_pc,                 \* "idle" | "loop" | "done": position of job_enforce_channels
    job_chats,              \* chats the current sweep has still to visit
    job_calls,              \* transport calls of the current (or last) sweep
    job_seen,               \* get_chat results of the current (or last) sweep
    mute_acked,             \* history: ids whose add_mute completed, no remove_mute since
    tide_requested          \* history: chats where the owner's /tide count is odd

caches == <<muted_cache, banned_cache, bot_muted_chats_cache, locked_info_cache,
            no_photo_chats_cache, broadcast_lock_global, clean_info_global>>
watch == <<watch_chats, watch_left>>
platform == <<chat_title, chat_photo>>
job == <<job_pc, job_chats, job_calls, job_seen>>
history == <<mute_acked, tide_requested>>
vars == <<caches, watch, db, platform, run, job, history>>

\* ---------------------------------------------------------------- updates
\* The fields of an update that the code reads.
Update(c, f, v, s, nt, np, dp, fwd, txt) ==
    [chat |-> c, from_user |-> f, via_bot |-> v, sender_chat |-> s,
     new_chat_title |-> nt, new_chat_photo |-> np, delete_chat_photo |-> dp,
     forward |-> fwd, text |-> txt]

NoUpdate == Update(None, None, None, None, NoTitle, FALSE, FALSE, "none", "")

\* Ordinary messages: any sender, via-bot and sender-chat identity, forwarded
\* or not ("auto": is_automatic_forward, "channel": forward_from_chat is a
\* channel).
Messages(chats, froms, vias, senders, fwds, texts) ==
    {Update(c, f, v, s, NoTitle, FALSE, FALSE, fwd, txt) :
        c \in chats, f \in froms, v \in vias, s \in senders, fwd \in fwds, txt \in texts}

\* Service notices of an info change: exactly one of the three fields is set.
\* Only group-like chats have them; they are never relayed or forwarded.
Notices(chats, froms, senders) ==
    {Update(c, f, None, s, nt, FALSE, FALSE, "none", "") :
        c \in chats \cap TitledChats, f \in froms, s \in senders, nt \in Titles}
    \cup
    {Update(c, f, None, s, NoTitle, np, ~np, "none", "") :
        c \in chats \cap TitledChats, f \in froms, s \in senders, np \in BOOLEAN}

\* ---------------------------------------------------------------- transport calls
\* One transport call: the API method, the rule of the pipeline (or 0 for a
\* command or the job) that issued it, its arguments, and whether it succeeded.
Call(api, rule, c, u, t, ok) ==
    [api |-> api, rule |-> rule, chat |-> c, user |-> u, title |-> t, ok |-> ok]

\* A transport method succeeds unless it is among the methods failing during
\* this run.
Ok(api, failing) == api \notin failing

\* ---------------------------------------------------------------- helpers
\* A check that lets every user pass.
owner_only_Anyone(u) == u # None

owner_only(u) == u # None /\ u = OWNER_ID

\* One token of a command's argument list: an integer literal or not.
IntTok(i) == [is_int |-> TRUE, value |-> i]
BadTok == [is_int |-> FALSE, value |-> 0]
NoArg == [ok |-> FALSE, value |-> 0]

\* A parser that reads the first argument and ignores the others.
parse_id_arg_First(args) ==
    IF Len(args) = 0 THEN NoArg
    ELSE IF args[1].is_int THEN [ok |-> TRUE, value |-> args[1].value]
    ELSE NoArg

parse_id_arg(args) ==
    IF Len(args) # 1 THEN NoArg
    ELSE IF args[1].is_int THEN [ok |-> TRUE, value |-> args[1].value]
    ELSE NoArg

message_ids_to_check(m) == {m.from_user, m.via_bot, m.sender_chat} \ {None}

is_message_from_this_bot(m) ==
    \/ m.from_user # None /\ IsBotAccount(m.from_user) /\ m.from_user = BOT_ID
    \/ m.via_bot # None /\ m.via_bot = BOT_ID

is_broadcast_like(m) ==
    \/ m.sender_chat # None
    \/ m.forward = "auto"
    \/ m.forward = "channel"

is_info_change_service_message(m) ==
    m.new_chat_title # NoTitle \/ m.new_chat_photo \/ m.delete_chat_photo

\* notify_owner: a send_message to the owner whose failure is swallowed.
notify_owner(rule, failing) ==
    <<Call("send_message", rule, OWNER_ID, None, NoTitle, Ok("send_message", failing))>>

\* enforce_no_chat_photo: delete the photo, tell the owner when that fails.
enforce_no_chat_photo(c, rule, failing) ==
    <<Call("delete_chat_photo", rule, c, None, NoTitle, Ok("delete_chat_photo", failing))>>
    \o (IF Ok("delete_chat_photo", failing) THEN <<>> ELSE notify_owner(rule, failing))

\* msg.delete()
DeleteMsg(m, rule, failing) ==
    <<Call("delete_message", rule, m.chat, None, NoTitle, Ok("delete_message", failing))>>

\* ---------------------------------------------------------------- handle_all_messages
\* The handler is a pipeline; the rules are numbered as in the design:
\*   1 chat discovery, 2 debug watch, 4 title-lock revert, 5 no-photo,
\*   6 clean-info sweep, 7 groups only, 8 sender-chat, 9 per-chat bot mute,
\*   10 global ban, 11 global mute.
\* Each part gives the rules it evaluated and the calls it issued.

WatchLeft(c) == IF c \in DOMAIN watch_left THEN watch_left[c] ELSE 0

\* A watch that reports every event of a watched chat, quota or not.
WatchCalls_IgnoresQuota(m, failing) ==
    IF m.chat \in watch_chats
    THEN <<Call("send_message", 2, OWNER_ID, None, NoTitle, Ok("send_message", failing))>>
    ELSE <<>>

\* Rule 2 (bot.py:738-758): report to the owner while the quota lasts.
WatchCalls(m, failing) ==
    IF m.chat \in watch_chats /\ WatchLeft(m.chat) > 0
    THEN <<Call("send_message", 2, OWNER_ID, None, NoTitle, Ok("send_message", failing))>>
    ELSE <<>>

WatchChatsAfter(m) ==
    IF m.chat \in watch_chats /\ WatchLeft(m.chat) <= 0
    THEN watch_chats \ {m.chat} ELSE watch_chats

WatchLeftAfter(m) ==
    IF m.chat \notin watch_chats THEN watch_left
    ELSE IF WatchLeft(m.chat) > 0
         THEN [c \in DOMAIN watch_left \cup {m.chat} |->
                  IF c = m.chat THEN WatchLeft(m.chat) - 1 ELSE watch_left[c]]
         ELSE [c \in DOMAIN watch_left \ {m.chat} |-> watch_left[c]]

\* Rule 4 (bot.py:761-768): a title-changed notice in a chat with a locked
\* title sets the locked title again; a failure is reported to the owner.
TitleLockDue(m) ==
    /\ m.chat \in DOMAIN locked_info_cache
    /\ m.new_chat_title # NoTitle
    /\ locked_info_cache[m.chat].title # NoTitle

TitleLockCalls(m, failing) ==
    IF TitleLockDue(m)
    THEN <<Call("set_chat_title", 4, m.chat, None, locked_info_cache[m.chat].title,
                Ok("set_chat_title", failing))>>
         \o (IF Ok("set_chat_title", failing) THEN <<>> ELSE notify_owner(4, failing))
    ELSE <<>>

\* Rule 5 (bot.py:771-773).
NoPhotoDue(m) ==
    /\ m.chat \in no_photo_chats_cache
    /\ (m.new_chat_photo \/ m.delete_chat_photo)

NoPhotoCalls(m, failing) ==
    IF NoPhotoDue(m) THEN enforce_no_chat_photo(m.chat, 5, failing) ELSE <<>>

\* Rule 6 (bot.py:777-783).
CleanInfoDue(m) ==
    /\ clean_info_global
    /\ ChatType(m.chat) \in GroupOrChannelKinds
    /\ is_info_change_service_message(m)

\* Rule 9 (bot.py:799-810): does the bot-mute rule try to delete the message?
BotMuteDue(m) ==
    /\ m.chat \in bot_muted_chats_cache
    /\ \/ m.from_user # None /\ IsBotAccount(m.from_user)
       \/ m.via_bot # None

\* A ban rule that bans whichever id of the message is banned.
BanMute_BansRelay(m, failing) ==
    IF m.from_user # None /\ m.from_user \in banned_cache
    THEN [rules |-> <<10>>,
          calls |-> <<Call("ban_chat_member", 10, m.chat, m.from_user, NoTitle,
                           Ok("ban_chat_member", failing))>>]
    ELSE IF m.via_bot # None /\ m.via_bot \in banned_cache
    THEN [rules |-> <<10>>,
          calls |-> <<Call("ban_chat_member", 10, m.chat, m.via_bot, NoTitle,
                           Ok("ban_chat_member", failing))>>]
    ELSE IF message_ids_to_check(m) \cap muted_cache # {}
    THEN [rules |-> <<10, 11>>, calls |-> DeleteMsg(m, 11, failing)]
    ELSE [rules |-> <<10, 11>>, calls |-> <<>>]

\* Rules 10 and 11 (bot.py:812-836).
BanMute(m, failing) ==
    IF m.from_user # None /\ m.from_user \in banned_cache
    THEN [rules |-> <<10>>,
          calls |-> <<Call("ban_chat_member", 10, m.chat, m.from_user, NoTitle,
                           Ok("ban_chat_member", failing))>>]
    ELSE IF m.via_bot # None /\ m.via_bot \in banned_cache
    THEN [rules |-> <<10>>, calls |-> DeleteMsg(m, 10, failing)]
    ELSE IF message_ids_to_check(m) \cap muted_cache # {}
    THEN [rules |-> <<10, 11>>, calls |-> DeleteMsg(m, 11, failing)]
    ELSE [rules |-> <<10, 11>>, calls |-> <<>>]

\* The slip of testing the bot mute before the sender chat.
UserModeration_BotMuteFirst(m, failing) ==
    IF BotMuteDue(m) /\ Ok("delete_message", failing)
    THEN [rules |-> <<9>>, calls |-> DeleteMsg(m, 9, failing)]
    ELSE IF m.sender_chat # None
    THEN [rules |-> <<9, 8>>, calls |-> DeleteMsg(m, 8, failing)]
    ELSE LET tried == IF BotMuteDue(m) THEN DeleteMsg(m, 9, failing) ELSE <<>>
             rest == BanMute(m, failing)
         IN  [rules |-> <<9, 8>> \o rest.rules, calls |-> tried \o rest.calls]

\* Rules 8 to 11 (bot.py:790-836).  A delete of the bot-mute rule that fails
\* raises inside its try block: the exception is swallowed and the handler
\* goes on with the ban and mute rules.
UserModeration(m, failing) ==
    IF m.sender_chat # None
    THEN [rules |-> <<8>>, calls |-> DeleteMsg(m, 8, failing)]
    ELSE IF BotMuteDue(m) /\ Ok("delete_message", failing)
    THEN [rules |-> <<8, 9>>, calls |-> DeleteMsg(m, 9, failing)]
    ELSE LET tried == IF BotMuteDue(m) THEN DeleteMsg(m, 9, failing) ELSE <<>>
             rest == BanMute(m, failing)
         IN  [rules |-> <<8, 9>> \o rest.rules, calls |-> tried \o rest.calls]

\* The slip of moderating users in every kind of chat.
GroupModeration_AnyChat(m, failing) ==
    LET r == UserModeration(m, failing)
    IN  [rules |-> <<7>> \o r.rules, calls |-> r.calls]

\* Rules 7 to 11 (bot.py:785-836).
GroupModeration(m, failing) ==
    IF ChatType(m.chat) \notin GroupKinds
    THEN [rules |-> <<7>>, calls |-> <<>>]
    ELSE LET r == UserModeration(m, failing)
         IN  [rules |-> <<7>> \o r.rules, calls |-> r.calls]

\* The order of the earlier revisions: the notice is swept before the reverts.
Pipeline_SweepFirst(m, failing) ==
    IF CleanInfoDue(m)
    THEN [rules |-> <<2, 6>>, calls |-> WatchCalls(m, failing) \o DeleteMsg(m, 6, failing)]
    ELSE LET r == GroupModeration(m, failing)
         IN  [rules |-> <<2, 4, 5, 6>> \o r.rules,
              calls |-> WatchCalls(m, failing) \o TitleLockCalls(m, failing)
                        \o NoPhotoCalls(m, failing) \o r.calls]

\* A handler with one try block around everything: the first call that fails
\* ends the run.
Pipeline_StopsAtFailure(m, failing) ==
    LET reverts == WatchCalls(m, failing) \o TitleLockCalls(m, failing)
                   \o NoPhotoCalls(m, failing)
        r == GroupModeration(m, failing)
        full == IF CleanInfoDue(m)
                THEN [rules |-> <<2, 4, 5, 6>>, calls |-> reverts \o DeleteMsg(m, 6, failing)]
                ELSE [rules |-> <<2, 4, 5, 6>> \o r.rules, calls |-> reverts \o r.calls]
        failed == {i \in 1..Len(full.calls) : ~full.calls[i].ok}
    IN  IF failed = {} THEN full
        ELSE [rules |-> full.rules,
              calls |-> SubSeq(full.calls, 1, CHOOSE i \in failed : \A j \in failed : i <= j)]

\* Rules 2 to 11 (bot.py:737-836): what the handler does once the chat is
\* recorded.
Pipeline(m, failing) ==
    LET reverts == WatchCalls(m, failing) \o TitleLockCalls(m, failing)
                   \o NoPhotoCalls(m, failing)
    IN  IF CleanInfoDue(m)
        THEN [rules |-> <<2, 4, 5, 6>>, calls |-> reverts \o DeleteMsg(m, 6, failing)]
        ELSE LET r == GroupModeration(m, failing)
             IN  [rules |-> <<2, 4, 5, 6>> \o r.rules, calls |-> reverts \o r.calls]

\* What the platform shows after the calls of a run: a set_chat_title that
\* succeeded set the title, a delete_chat_photo that succeeded removed the photo.
TitleAfter(calls) ==
    [c \in DOMAIN chat_title |->
        LET done == {i \in 1..Len(calls) :
                        calls[i].api = "set_chat_title" /\ calls[i].chat = c /\ calls[i].ok}
        IN  IF done = {} THEN chat_title[c]
            ELSE calls[CHOOSE i \in done : \A j \in done : j <= i].title]

PhotoAfter(calls) ==
    [c \in DOMAIN chat_photo |->
        chat_photo[c] /\ ~\E i \in 1..Len(calls) :
            calls[i].api = "delete_chat_photo" /\ calls[i].chat = c /\ calls[i].ok]

\* selects: the tables of the store the run issued a select on.
Run(h, u, args, rules, calls, raised) ==
    [handler |-> h, update |-> u, args |-> args, rules |-> rules, calls |-> calls,
     raised |-> raised, selects |-> {}]

\* add_known_chat (bot.py:191-196): insert if absent.
add_known_chat(c) == [db EXCEPT !.known_chats = @ \cup {c}]

\* A handler that registers every chat it sees, private chats too.
HandleAllMessages_TracksAll(m, failing, store_ok) ==
    LET p == Pipeline(m, failing)
    IN  /\ tide_requested' =
              IF m.text = "/tide" /\ owner_only(m.from_user)
              THEN (tide_requested \ {m.chat}) \cup ({m.chat} \ tide_requested)
              ELSE tide_requested
        /\ IF ~store_ok
           THEN /\ run' = Run("handle_all_messages", m, <<>>, <<1>>, <<>>, TRUE)
                /\ UNCHANGED <<watch, db, platform>>
           ELSE /\ run' = Run("handle_all_messages", m, <<>>, <<1>> \o p.rules, p.calls, FALSE)
                /\ db' = [db EXCEPT !.known_chats = @ \cup {m.chat}]
                /\ watch_chats' = WatchChatsAfter(m)
                /\ watch_left' = WatchLeftAfter(m)
                /\ chat_title' = TitleAfter(p.calls)
                /\ chat_photo' = PhotoAfter(p.calls)
        /\ UNCHANGED <<caches, job, mute_acked>>

\* A handler with an escalation step: a muted sender whose message the mute
\* rule deletes is put on the ban list.
HandleAllMessages_Escalates(m, failing, store_ok) ==
    LET discover == ChatType(m.chat) \in GroupOrChannelKinds
        p == Pipeline(m, failing)
        escalated == \E i \in 1..Len(p.calls) : p.calls[i].rule = 11
    IN  /\ tide_requested' =
              IF m.text = "/tide" /\ owner_only(m.from_user)
              THEN (tide_requested \ {m.chat}) \cup ({m.chat} \ tide_requested)
              ELSE tide_requested
        /\ IF discover /\ ~store_ok
           THEN /\ run' = Run("handle_all_messages", m, <<>>, <<1>>, <<>>, TRUE)
                /\ UNCHANGED <<watch, db, platform, banned_cache>>
           ELSE /\ run' = Run("handle_all_messages", m, <<>>, <<1>> \o p.rules, p.calls, FALSE)
                /\ db' = IF discover THEN add_known_chat(m.chat) ELSE db
                /\ watch_chats' = WatchChatsAfter(m)
                /\ watch_left' = WatchLeftAfter(m)
                /\ chat_title' = TitleAfter(p.calls)
                /\ chat_photo' = PhotoAfter(p.calls)
                /\ banned_cache' = IF escalated THEN banned_cache \cup {m.from_user}
                                   ELSE banned_cache
        /\ UNCHANGED <<muted_cache, bot_muted_chats_cache, locked_info_cache,
                       no_photo_chats_cache, broadcast_lock_global, clean_info_global,
                       job, mute_acked>>

\* handle_all_messages (bot.py:726-836) for update m.  failing: the transport
\* methods that fail during this run.  store_ok: does the store accept the
\* known-chat insert; if not, the insert raises out of the handler.
HandleAllMessages(m, failing, store_ok) ==
    LET discover == ChatType(m.chat) \in GroupOrChannelKinds
        p == Pipeline(m, failing)
    IN  /\ tide_requested' =
              IF m.text = "/tide" /\ owner_only(m.from_user)
              THEN (tide_requested \ {m.chat}) \cup ({m.chat} \ tide_requested)
              ELSE tide_requested
        /\ IF discover /\ ~store_ok
           THEN /\ run' = Run("handle_all_messages", m, <<>>, <<1>>, <<>>, TRUE)
                /\ UNCHANGED <<watch, db, platform>>
           ELSE /\ run' = Run("handle_all_messages", m, <<>>, <<1>> \o p.rules, p.calls, FALSE)
                /\ db' = IF discover THEN add_known_chat(m.chat) ELSE db
                /\ watch_chats' = WatchChatsAfter(m)
                /\ watch_left' = WatchLeftAfter(m)
                /\ chat_title' = TitleAfter(p.calls)
                /\ chat_photo' = PhotoAfter(p.calls)
        /\ UNCHANGED <<caches, job, mute_acked>>

\* ---------------------------------------------------------------- the store
\* The tables db_init creates (bot.py:57-140), empty, both flags FALSE.
EmptyDb ==
    [muted_users |-> {}, banned_users |-> {}, known_chats |-> {},
     bot_muted_chats |-> {}, locked_group_info |-> <<>>, no_photo_chats |-> {},
     broadcast_lock_state |-> FALSE, clean_info_state |-> FALSE]

\* The orders in which a select or a dict can yield the elements of S.
Orders(S) ==
    {q \in [1..Cardinality(S) -> S] : \A i, j \in 1..Cardinality(S) : q[i] = q[j] => i = j}

\* get_all_known_chats (bot.py:199-202) reads the known_chats table.
get_all_known_chats == db.known_chats

\* A dict without key c.
Without(f, c) == [k \in DOMAIN f \ {c} |-> f[k]]

LockedInfo(title, photo_file_id) == [title |-> title, photo_file_id |-> photo_file_id]

\* ---------------------------------------------------------------- commands
\* The update of a command: text txt sent by user u in chat c.
CmdUpdate(c, u, txt) == Update(c, u, None, None, NoTitle, FALSE, FALSE, "none", txt)

Reply(c, failing) ==
    <<Call("reply_text", 0, c, None, NoTitle, Ok("reply_text", failing))>>

\* A command that does nothing but answer, or nothing at all for a stranger.
\* reply_text is not guarded: its failure raises out of the handler.
AnsweredRun(h, c, u, args, calls, failing) ==
    Run(h, CmdUpdate(c, u, h), args, <<>>, calls \o Reply(c, failing),
        ~Ok("reply_text", failing))

Answered(h, c, u, args, calls, failing) ==
    run' = AnsweredRun(h, c, u, args, calls, failing)

Rejected(h, c, u, args) ==
    run' = Run(h, CmdUpdate(c, u, h), args, <<>>, <<>>, FALSE)

\* A store access of the command raised: nothing is answered.
RaisedRun(h, c, u, args, calls) ==
    Run(h, CmdUpdate(c, u, h), args, <<>>, calls, TRUE)

Raised(h, c, u, args, calls) ==
    run' = RaisedRun(h, c, u, args, calls)

\* The run of a command that called get_all_known_chats (bot.py:199-202): a
\* select on the known_chats table.
ReadKnownChats(r) == [r EXCEPT !.selects = {"known_chats"}]

\* A command that changes nothing: not the owner, or bad arguments.
NoChange(h, c, u, args, failing) ==
    /\ IF ~owner_only(u) THEN Rejected(h, c, u, args)
       ELSE Answered(h, c, u, args, <<>>, failing)
    /\ UNCHANGED <<caches, watch, db, platform, job, history>>

\* A /mute that keeps the id in memory only.
CmdMute_CacheOnly(c, u, args, failing, store_ok) ==
    LET a == parse_id_arg(args)
    IN  IF ~owner_only(u) \/ ~a.ok THEN NoChange("/mute", c, u, args, failing)
        ELSE /\ muted_cache' = muted_cache \cup {a.value}
             /\ mute_acked' = mute_acked \cup {a.value}
             /\ Answered("/mute", c, u, args, <<>>, failing)
             /\ UNCHANGED <<db, banned_cache, bot_muted_chats_cache, locked_info_cache,
                            no_photo_chats_cache, broadcast_lock_global,
                            clean_info_global, watch, platform, job, tide_requested>>

\* cmd_mute (bot.py:424-432) with add_mute (bot.py:205-211): the cache first,
\* then the store; a store that fails raises after the cache was changed.
CmdMute(c, u, args, failing, store_ok) ==
    LET a == parse_id_arg(args)
    IN  IF ~owner_only(u) \/ ~a.ok THEN NoChange("/mute", c, u, args, failing)
        ELSE /\ muted_cache' = muted_cache \cup {a.value}
             /\ IF store_ok
                THEN /\ db' = [db EXCEPT !.muted_users = @ \cup {a.value}]
                     /\ mute_acked' = mute_acked \cup {a.value}
                     /\ Answered("/mute", c, u, args, <<>>, failing)
                ELSE /\ Raised("/mute", c, u, args, <<>>)
                     /\ UNCHANGED <<db, mute_acked>>
             /\ UNCHANGED <<banned_cache, bot_muted_chats_cache, locked_info_cache,
                            no_photo_chats_cache, broadcast_lock_global,
                            clean_info_global, watch, platform, job, tide_requested>>

\* cmd_unmute (bot.py:435-443) with remove_mute (bot.py:214-217).
CmdUnmute(c, u, args, failing, store_ok) ==
    LET a == parse_id_arg(args)
    IN  IF ~owner_only(u) \/ ~a.ok THEN NoChange("/unmute", c, u, args, failing)
        ELSE /\ muted_cache' = muted_cache \ {a.value}
             /\ mute_acked' = mute_acked \ {a.value}
             /\ IF store_ok
                THEN /\ db' = [db EXCEPT !.muted_users = @ \ {a.value}]
                     /\ Answered("/unmute", c, u, args, <<>>, failing)
                ELSE /\ Raised("/unmute", c, u, args, <<>>)
                     /\ UNCHANGED db
             /\ UNCHANGED <<banned_cache, bot_muted_chats_cache, locked_info_cache,
                            no_photo_chats_cache, broadcast_lock_global,
                            clean_info_global, watch, platform, job, tide_requested>>

\* The calls of a bulk command: one call of the method per known chat, in the
\* order the select gave them.
BulkCalls(api, order, user, failing) ==
    [i \in 1..Len(order) |-> Call(api, 0, order[i], user, NoTitle, Ok(api, failing))]

\* cmd_ban (bot.py:446-465) with add_ban (bot.py:220-226).
CmdBan(c, u, args, order, failing, store_ok) ==
    LET a == parse_id_arg(args)
    IN  IF ~owner_only(u) \/ ~a.ok THEN NoChange("/ban", c, u, args, failing)
        ELSE /\ order \in Orders(get_all_known_chats)
             /\ banned_cache' = banned_cache \cup {a.value}
             /\ IF store_ok
                THEN /\ db' = [db EXCEPT !.banned_users = @ \cup {a.value}]
                     /\ run' = ReadKnownChats(AnsweredRun("/ban", c, u, args,
                                 BulkCalls("ban_chat_member", order, a.value, failing),
                                 failing))
                ELSE /\ Raised("/ban", c, u, args, <<>>)
                     /\ UNCHANGED db
             /\ UNCHANGED <<muted_cache, bot_muted_chats_cache, locked_info_cache,
                            no_photo_chats_cache, broadcast_lock_global,
                            clean_info_global, watch, platform, job, history>>

\* cmd_unban (bot.py:468-487) with remove_ban (bot.py:229-232).
CmdUnban(c, u, args, order, failing, store_ok) ==
    LET a == parse_id_arg(args)
    IN  IF ~owner_only(u) \/ ~a.ok THEN NoChange("/unban", c, u, args, failing)
        ELSE /\ order \in Orders(get_all_known_chats)
             /\ banned_cache' = banned_cache \ {a.value}
             /\ IF store_ok
                THEN /\ db' = [db EXCEPT !.banned_users = @ \ {a.value}]
                     /\ run' = ReadKnownChats(AnsweredRun("/unban", c, u, args,
                                 BulkCalls("unban_chat_member", order, a.value, failing),
                                 failing))
                ELSE /\ Raised("/unban", c, u, args, <<>>)
                     /\ UNCHANGED db
             /\ UNCHANGED <<muted_cache, bot_muted_chats_cache, locked_info_cache,
                            no_photo_chats_cache, broadcast_lock_global,
                            clean_info_global, watch, platform, job, history>>

\* A /mutebot that writes the store first and the cache after it.
CmdMuteBot_StoreFirst(c, u, args, failing, store_ok) ==
    LET a == parse_id_arg(args)
    IN  IF ~owner_only(u) \/ ~a.ok THEN NoChange("/mutebot", c, u, args, failing)
        ELSE /\ IF store_ok
                THEN /\ db' = [db EXCEPT !.bot_muted_chats = @ \cup {a.value}]
                     /\ bot_muted_chats_cache' = bot_muted_chats_cache \cup {a.value}
                     /\ Answered("/mutebot", c, u, args, <<>>, failing)
                ELSE /\ Raised("/mutebot", c, u, args, <<>>)
                     /\ UNCHANGED <<db, bot_muted_chats_cache>>
             /\ UNCHANGED <<muted_cache, banned_cache, locked_info_cache,
                            no_photo_chats_cache, broadcast_lock_global,
                            clean_info_global, watch, platform, job, history>>

\* cmd_mutebot (bot.py:525-533) with add_bot_mute_chat (bot.py:235-241).
CmdMuteBot(c, u, args, failing, store_ok) ==
    LET a == parse_id_arg(args)
    IN  IF ~owner_only(u) \/ ~a.ok THEN NoChange("/mutebot", c, u, args, failing)
        ELSE /\ bot_muted_chats_cache' = bot_muted_chats_cache \cup {a.value}
             /\ IF store_ok
                THEN /\ db' = [db EXCEPT !.bot_muted_chats = @ \cup {a.value}]
                     /\ Answered("/mutebot", c, u, args, <<>>, failing)
                ELSE /\ Raised("/mutebot", c, u, args, <<>>)
                     /\ UNCHANGED db
             /\ UNCHANGED <<muted_cache, banned_cache, locked_info_cache,
                            no_photo_chats_cache, broadcast_lock_global,
                            clean_info_global, watch, platform, job, history>>

\* cmd_unmutebot (bot.py:536-544) with remove_bot_mute_chat (bot.py:244-247).
CmdUnmuteBot(c, u, args, failing, store_ok) ==
    LET a == parse_id_arg(args)
    IN  IF ~owner_only(u) \/ ~a.ok THEN NoChange("/unmutebot", c, u, args, failing)
        ELSE /\ bot_muted_chats_cache' = bot_muted_chats_cache \ {a.value}
             /\ IF store_ok
                THEN /\ db' = [db EXCEPT !.bot_muted_chats = @ \ {a.value}]
                     /\ Answered("/unmutebot", c, u, args, <<>>, failing)
                ELSE /\ Raised("/unmutebot", c, u, args, <<>>)
                     /\ UNCHANGED db
             /\ UNCHANGED <<muted_cache, banned_cache, locked_info_cache,
                            no_photo_chats_cache, broadcast_lock_global,
                            clean_info_global, watch, platform, job, history>>

\* cmd_lockbroadcast / cmd_unlockbroadcast (bot.py:628-641) with
\* set_broadcast_lock_state (bot.py:176-180).
CmdSetBroadcastLock(h, enabled, c, u, failing, store_ok) ==
    IF ~owner_only(u) THEN NoChange(h, c, u, <<>>, failing)
    ELSE /\ broadcast_lock_global' = enabled
         /\ IF store_ok
            THEN /\ db' = [db EXCEPT !.broadcast_lock_state = enabled]
                 /\ Answered(h, c, u, <<>>, <<>>, failing)
            ELSE /\ Raised(h, c, u, <<>>, <<>>)
                 /\ UNCHANGED db
         /\ UNCHANGED <<muted_cache, banned_cache, bot_muted_chats_cache,
                        locked_info_cache, no_photo_chats_cache, clean_info_global,
                        watch, platform, job, history>>

CmdLockBroadcast(c, u, failing, store_ok) ==
    CmdSetBroadcastLock("/lockbroadcast", TRUE, c, u, failing, store_ok)

CmdUnlockBroadcast(c, u, failing, store_ok) ==
    CmdSetBroadcastLock("/unlockbroadcast", FALSE, c, u, failing, store_ok)

\* cmd_cleaninfo_global_on / _off (bot.py:644-655) with set_clean_info_state
\* (bot.py:183-187).
CmdSetCleanInfo(h, enabled, c, u, failing, store_ok) ==
    IF ~owner_only(u) THEN NoChange(h, c, u, <<>>, failing)
    ELSE /\ clean_info_global' = enabled
         /\ IF store_ok
            THEN /\ db' = [db EXCEPT !.clean_info_state = enabled]
                 /\ Answered(h, c, u, <<>>, <<>>, failing)
            ELSE /\ Raised(h, c, u, <<>>, <<>>)
                 /\ UNCHANGED db
         /\ UNCHANGED <<muted_cache, banned_cache, bot_muted_chats_cache,
                        locked_info_cache, no_photo_chats_cache, broadcast_lock_global,
                        watch, platform, job, history>>

CmdCleanInfoOn(c, u, failing, store_ok) ==
    CmdSetCleanInfo("/cleaninfo_global_on", TRUE, c, u, failing, store_ok)

CmdCleanInfoOff(c, u, failing, store_ok) ==
    CmdSetCleanInfo("/cleaninfo_global_off", FALSE, c, u, failing, store_ok)

\* The legacy photo_file_id column: the file id of the photo the chat had.
NoFile == ""
PhotoFileId(c) == IF chat_photo[c] THEN "big_file_id" ELSE NoFile

\* The elements of a sequence.
Range(q) == {q[i] : i \in 1..Len(q)}

\* cmd_lockinfo (bot.py:556-579) with upsert_locked_info (bot.py:250-261).
\* order: the known chats as the select gave them.  able: the chats for which
\* get_chat succeeds and bot_can_change_info (bot.py:321-332) answers yes; the
\* others are skipped or counted as failed.  store_ok: does the select of the
\* known chats work; if not, it raises out of the command.  write_ok: do the
\* inserts of upsert_locked_info work; if not, each raises inside the try
\* block of its chat, after the cache was changed, and is counted as failed.
CmdLockInfo(c, u, order, able, failing, store_ok, write_ok) ==
    IF ~owner_only(u) THEN NoChange("/lockinfo", c, u, <<>>, failing)
    ELSE /\ order \in Orders(get_all_known_chats)
         /\ able \subseteq get_all_known_chats
         /\ IF store_ok
            THEN LET locked == {k \in able : ChatType(k) \in GroupOrChannelKinds}
                     entry(k) == LockedInfo(chat_title[k], PhotoFileId(k))
                 IN  /\ locked_info_cache' =
                            [k \in DOMAIN locked_info_cache \cup locked |->
                                IF k \in locked THEN entry(k) ELSE locked_info_cache[k]]
                     /\ db' = IF ~write_ok THEN db
                              ELSE [db EXCEPT !.locked_group_info =
                                      [k \in DOMAIN @ \cup locked |->
                                          IF k \in locked THEN entry(k) ELSE @[k]]]
                     /\ run' = ReadKnownChats(
                                   AnsweredRun("/lockinfo", c, u, <<>>, <<>>, failing))
            ELSE /\ run' = ReadKnownChats(RaisedRun("/lockinfo", c, u, <<>>, <<>>))
                 /\ UNCHANGED <<locked_info_cache, db>>
         /\ UNCHANGED <<muted_cache, banned_cache, bot_muted_chats_cache,
                        no_photo_chats_cache, broadcast_lock_global, clean_info_global,
                        watch, platform, job, history>>

\* cmd_unlockinfo (bot.py:582-588) with delete_locked_info (bot.py:264-267).
\* order: the keys of the dict as list() gave them.  A store that fails
\* raises out of the loop after the first key left the cache.
CmdUnlockInfo(c, u, order, failing, store_ok) ==
    IF ~owner_only(u) THEN NoChange("/unlockinfo", c, u, <<>>, failing)
    ELSE /\ order \in Orders(DOMAIN locked_info_cache)
         /\ IF store_ok \/ order = <<>>
            THEN /\ locked_info_cache' = <<>>
                 /\ db' = [db EXCEPT !.locked_group_info =
                        [k \in DOMAIN @ \ DOMAIN locked_info_cache |-> @[k]]]
                 /\ Answered("/unlockinfo", c, u, <<>>, <<>>, failing)
            ELSE /\ locked_info_cache' = Without(locked_info_cache, order[1])
                 /\ Raised("/unlockinfo", c, u, <<>>, <<>>)
                 /\ UNCHANGED db
         /\ UNCHANGED <<muted_cache, banned_cache, bot_muted_chats_cache,
                        no_photo_chats_cache, broadcast_lock_global, clean_info_global,
                        watch, platform, job, history>>

\* The calls of cmd_locknophoto: enforce_no_chat_photo for each chat that is
\* added and has a photo.
RECURSIVE LockNoPhotoCalls(_, _, _)
LockNoPhotoCalls(order, added, failing) ==
    IF order = <<>> THEN <<>>
    ELSE (IF Head(order) \in added /\ chat_photo[Head(order)]
          THEN enforce_no_chat_photo(Head(order), 0, failing) ELSE <<>>)
         \o LockNoPhotoCalls(Tail(order), added, failing)

\* cmd_locknophoto (bot.py:591-616) with add_no_photo_chat (bot.py:270-276).
\* store_ok and write_ok as for cmd_lockinfo; an insert that raises skips the
\* enforce_no_chat_photo of its chat, which comes after it in the try block.
CmdLockNoPhoto(c, u, order, able, failing, store_ok, write_ok) ==
    IF ~owner_only(u) THEN NoChange("/locknophoto", c, u, <<>>, failing)
    ELSE /\ order \in Orders(get_all_known_chats)
         /\ able \subseteq get_all_known_chats
         /\ IF store_ok
            THEN LET added == {k \in able : ChatType(k) \in GroupOrChannelKinds}
                     calls == IF write_ok THEN LockNoPhotoCalls(order, added, failing)
                              ELSE <<>>
                 IN  /\ no_photo_chats_cache' = no_photo_chats_cache \cup added
                     /\ db' = IF write_ok THEN [db EXCEPT !.no_photo_chats = @ \cup added]
                              ELSE db
                     /\ chat_photo' = PhotoAfter(calls)
                     /\ run' = ReadKnownChats(
                                   AnsweredRun("/locknophoto", c, u, <<>>, calls, failing))
            ELSE /\ run' = ReadKnownChats(RaisedRun("/locknophoto", c, u, <<>>, <<>>))
                 /\ UNCHANGED <<no_photo_chats_cache, db, chat_photo>>
         /\ UNCHANGED <<muted_cache, banned_cache, bot_muted_chats_cache,
                        locked_info_cache, broadcast_lock_global, clean_info_global,
                        watch, chat_title, job, history>>

\* cmd_unlocknophoto (bot.py:619-625) with remove_no_photo_chat (bot.py:279-282).
CmdUnlockNoPhoto(c, u, order, failing, store_ok) ==
    IF ~owner_only(u) THEN NoChange("/unlocknophoto", c, u, <<>>, failing)
    ELSE /\ order \in Orders(no_photo_chats_cache)
         /\ IF store_ok \/ order = <<>>
            THEN /\ no_photo_chats_cache' = {}
                 /\ db' = [db EXCEPT !.no_photo_chats = @ \ no_photo_chats_cache]
                 /\ Answered("/unlocknophoto", c, u, <<>>, <<>>, failing)
            ELSE /\ no_photo_chats_cache' = no_photo_chats_cache \ {order[1]}
                 /\ Raised("/unlocknophoto", c, u, <<>>, <<>>)
                 /\ UNCHANGED db
         /\ UNCHANGED <<muted_cache, banned_cache, bot_muted_chats_cache,
                        locked_info_cache, broadcast_lock_global, clean_info_global,
                        watch, platform, job, history>>

\* cmd_admin (bot.py:490-522): a promote_chat_member for every known chat;
\* nothing is stored.  A store that fails raises at the select.
CmdAdmin(c, u, args, order, failing, store_ok) ==
    LET a == parse_id_arg(args)
    IN  IF ~owner_only(u) \/ ~a.ok THEN NoChange("/admin", c, u, args, failing)
        ELSE /\ order \in Orders(get_all_known_chats)
             /\ run' = ReadKnownChats(
                    IF store_ok
                    THEN AnsweredRun("/admin", c, u, args,
                             BulkCalls("promote_chat_member", order, a.value, failing),
                             failing)
                    ELSE RaisedRun("/admin", c, u, args, <<>>))
             /\ UNCHANGED <<caches, watch, db, platform, job, history>>

\* cmd_chatid (bot.py:547-553): answers the owner.
CmdChatId(c, u, failing) == NoChange("/chatid", c, u, <<>>, failing)

\* cmd_testdelete (bot.py:659-669): deletes the message the command replies
\* to and answers, whether or not the delete worked.
CmdTestDelete(c, u, replied, failing) ==
    IF ~owner_only(u) \/ ~replied THEN NoChange("/testdelete", c, u, <<>>, failing)
    ELSE /\ Answered("/testdelete", c, u, <<>>,
                     DeleteMsg(CmdUpdate(c, u, "/testdelete"), 0, failing), failing)
         /\ UNCHANGED <<caches, watch, db, platform, job, history>>

\* cmd_dbg (bot.py:672-699): answers with what the caches say about the chat.
CmdDbg(c, u, replied, failing) == NoChange("/dbg", c, u, <<>>, failing)

\* The updates cmd_watch promises to report (bot.py:710).
WATCH_QUOTA == 20

\* cmd_watch (bot.py:702-711): in memory only.
CmdWatch(c, u, failing) ==
    IF ~owner_only(u) \/ ChatType(c) \notin GroupOrChannelKinds
    THEN NoChange("/watch", c, u, <<>>, failing)
    ELSE /\ watch_chats' = watch_chats \cup {c}
         /\ watch_left' = [k \in DOMAIN watch_left \cup {c} |->
                              IF k = c THEN WATCH_QUOTA ELSE watch_left[k]]
         /\ Answered("/watch", c, u, <<>>, <<>>, failing)
         /\ UNCHANGED <<caches, db, platform, job, history>>

\* cmd_unwatch (bot.py:714-722).
CmdUnwatch(c, u, failing) ==
    IF ~owner_only(u) THEN NoChange("/unwatch", c, u, <<>>, failing)
    ELSE /\ watch_chats' = watch_chats \ {c}
         /\ watch_left' = Without(watch_left, c)
         /\ Answered("/unwatch", c, u, <<>>, <<>>, failing)
         /\ UNCHANGED <<caches, db, platform, job, history>>

\* ---------------------------------------------------------------- restart
\* A load_caches that does not read the no_photo_chats table.
Restart_ForgetsNoPhoto ==
    /\ muted_cache' = db.muted_users
    /\ banned_cache' = db.banned_users
    /\ bot_muted_chats_cache' = db.bot_muted_chats
    /\ locked_info_cache' = db.locked_group_info
    /\ no_photo_chats_cache' = {}
    /\ broadcast_lock_global' = db.broadcast_lock_state
    /\ clean_info_global' = db.clean_info_state
    /\ watch_chats' = {}
    /\ watch_left' = <<>>
    /\ run' = Run("main", NoUpdate, <<>>, <<>>, <<>>, FALSE)
    /\ job_pc' = "idle"
    /\ job_chats' = <<>>
    /\ job_calls' = <<>>
    /\ job_seen' = <<>>
    /\ tide_requested' = {}
    /\ UNCHANGED <<db, platform, mute_acked>>

\* main (bot.py:840-886) after a stop of the process: load_caches
\* (bot.py:143-173) rebuilds every cache from the store alone; the watch state
\* and the job start afresh.
Restart ==
    /\ muted_cache' = db.muted_users
    /\ banned_cache' = db.banned_users
    /\ bot_muted_chats_cache' = db.bot_muted_chats
    /\ locked_info_cache' = db.locked_group_info
    /\ no_photo_chats_cache' = db.no_photo_chats
    /\ broadcast_lock_global' = db.broadcast_lock_state
    /\ clean_info_global' = db.clean_info_state
    /\ watch_chats' = {}
    /\ watch_left' = <<>>
    /\ run' = Run("main", NoUpdate, <<>>, <<>>, <<>>, FALSE)
    /\ job_pc' = "idle"
    /\ job_chats' = <<>>
    /\ job_calls' = <<>>
    /\ job_seen' = <<>>
    /\ tide_requested' = {}
    /\ UNCHANGED <<db, platform, mute_acked>>

\* ---------------------------------------------------------------- job_enforce_channels
\* What get_chat answered for a chat of the sweep.
Seen(c, ok) ==
    [chat |-> c, ok |-> ok,
     type |-> IF ok THEN ChatType(c) ELSE "",
     title |-> IF ok THEN chat_title[c] ELSE NoTitle,
     photo |-> ok /\ chat_photo[c]]

\* The start of a sweep (bot.py:393): the known chats are read from the
\* store; a store that fails raises out of the job.
JobStart(order, store_ok) ==
    /\ job_pc = "idle"
    /\ order \in Orders(get_all_known_chats)
    /\ job_chats' = IF store_ok THEN order ELSE <<>>
    /\ job_pc' = IF store_ok /\ order # <<>> THEN "loop" ELSE "idle"
    /\ job_calls' = <<>>
    /\ job_seen' = <<>>
    /\ UNCHANGED <<caches, watch, db, platform, run, history>>

\* Title lock of the job (bot.py:402-408): set the title on a diff.
JobTitleDue(c) ==
    /\ c \in DOMAIN locked_info_cache
    /\ locked_info_cache[c].title # NoTitle
    /\ chat_title[c] # locked_info_cache[c].title

JobTitleCalls(c, failing) ==
    IF JobTitleDue(c)
    THEN <<Call("set_chat_title", 0, c, None, locked_info_cache[c].title,
                Ok("set_chat_title", failing))>>
    ELSE <<>>

\* No-photo enforcement of the job (bot.py:411-416).
JobPhotoDue(c) == c \in no_photo_chats_cache /\ chat_photo[c]

JobPhotoCalls(c, failing) ==
    IF JobPhotoDue(c)
    THEN <<Call("delete_chat_photo", 0, c, None, NoTitle, Ok("delete_chat_photo", failing))>>
    ELSE <<>>

\* A job that does not look at the kind of the chat.
JobChatCalls_AnyKind(c, failing) ==
    JobTitleCalls(c, failing) \o JobPhotoCalls(c, failing)

\* What the job does for one chat once get_chat has answered (bot.py:398-416).
JobChatCalls(c, failing) ==
    IF ChatType(c) # "channel" THEN <<>>
    ELSE JobTitleCalls(c, failing) \o JobPhotoCalls(c, failing)

\* A sweep with one try block around the whole loop: the first get_chat that
\* fails ends the sweep.
JobStep_AbortsOnFailure(get_ok, failing) ==
    /\ job_pc = "loop"
    /\ LET c == Head(job_chats)
           calls == IF get_ok THEN JobChatCalls(c, failing) ELSE <<>>
       IN  /\ job_seen' = Append(job_seen, Seen(c, get_ok))
           /\ job_calls' = job_calls \o calls
           /\ chat_title' = TitleAfter(calls)
           /\ chat_photo' = PhotoAfter(calls)
    /\ job_chats' = IF get_ok THEN Tail(job_chats) ELSE <<>>
    /\ job_pc' = IF ~get_ok \/ Tail(job_chats) = <<>> THEN "done" ELSE "loop"
    /\ UNCHANGED <<caches, watch, db, run, history>>

\* One turn of the loop (bot.py:395-420): get_chat for the next chat, then
\* the calls for it.  A get_chat that fails skips the chat.
JobStep(get_ok, failing) ==
    /\ job_pc = "loop"
    /\ LET c == Head(job_chats)
           calls == IF get_ok THEN JobChatCalls(c, failing) ELSE <<>>
       IN  /\ job_seen' = Append(job_seen, Seen(c, get_ok))
           /\ job_calls' = job_calls \o calls
           /\ chat_title' = TitleAfter(calls)
           /\ chat_photo' = PhotoAfter(calls)
    /\ job_chats' = Tail(job_chats)
    /\ job_pc' = IF Tail(job_chats) = <<>> THEN "done" ELSE "loop"
    /\ UNCHANGED <<caches, watch, db, run, history>>

\* A job that decides about the photo before it awaits set_chat_title and
\* acts on that decision when the call has returned.
JobAwaits_DecidesEarly(get_ok, failing) ==
    LET c == IF job_pc = "loop" THEN Head(job_chats) ELSE job_seen[Len(job_seen)].chat
        channel == ChatType(c) = "channel"
        rest == IF job_pc = "loop" THEN Tail(job_chats) ELSE job_chats
        next == IF rest = <<>> THEN "done" ELSE "loop"
    IN  \/ /\ job_pc = "loop"
           /\ job_seen' = Append(job_seen, Seen(c, get_ok))
           /\ job_chats' = rest
           /\ LET titles == IF get_ok /\ channel THEN JobTitleCalls(c, failing) ELSE <<>>
                   photos == IF get_ok /\ channel THEN JobPhotoCalls(c, failing) ELSE <<>>
               IN  IF titles # <<>>
                   THEN /\ job_calls' = job_calls \o titles
                        /\ chat_title' = TitleAfter(titles)
                        /\ job_pc' = IF photos # <<>> THEN "title, photo" ELSE "title, no photo"
                        /\ UNCHANGED chat_photo
                   ELSE /\ job_calls' = job_calls \o photos
                        /\ chat_photo' = PhotoAfter(photos)
                        /\ job_pc' = next
                        /\ UNCHANGED chat_title
           /\ UNCHANGED <<caches, watch, db, run, history>>
        \/ /\ job_pc \in {"title, photo", "title, no photo"}
           /\ LET photos ==
                     IF job_pc = "title, photo"
                     THEN <<Call("delete_chat_photo", 0, c, None, NoTitle,
                                 Ok("delete_chat_photo", failing))>>
                     ELSE <<>>
               IN  /\ job_calls' = job_calls \o photos
                   /\ chat_photo' = PhotoAfter(photos)
           /\ job_pc' = next
           /\ UNCHANGED <<caches, watch, db, run, history, chat_title, job_seen, job_chats>>

\* One turn of the loop at the grain of its awaits (bot.py:395-420).  The job
\* is suspended in get_chat while job_pc is "loop".  When get_chat answers,
\* the title lock is read and, on a diff, set_chat_title is issued: the job
\* is suspended in that call while job_pc is "title".  When it is not issued
\* or has returned, the no-photo chats are read, with the photo get_chat
\* reported, and delete_chat_photo is issued; then the loop goes on.
JobAwaits(get_ok, failing) ==
    LET c == IF job_pc = "loop" THEN Head(job_chats) ELSE job_seen[Len(job_seen)].chat
        channel == ChatType(c) = "channel"
        rest == IF job_pc = "loop" THEN Tail(job_chats) ELSE job_chats
        next == IF rest = <<>> THEN "done" ELSE "loop"
    IN  \/ /\ job_pc = "loop"
           /\ job_seen' = Append(job_seen, Seen(c, get_ok))
           /\ job_chats' = rest
           /\ LET titles == IF get_ok /\ channel THEN JobTitleCalls(c, failing) ELSE <<>>
                   photos == IF get_ok /\ channel THEN JobPhotoCalls(c, failing) ELSE <<>>
               IN  IF titles # <<>>
                   THEN /\ job_calls' = job_calls \o titles
                        /\ chat_title' = TitleAfter(titles)
                        /\ job_pc' = "title"
                        /\ UNCHANGED chat_photo
                   ELSE /\ job_calls' = job_calls \o photos
                        /\ chat_photo' = PhotoAfter(photos)
                        /\ job_pc' = next
                        /\ UNCHANGED chat_title
           /\ UNCHANGED <<caches, watch, db, run, history>>
        \/ /\ job_pc = "title"
           /\ LET photos ==
                     IF c \in no_photo_chats_cache /\ job_seen[Len(job_seen)].photo
                     THEN <<Call("delete_chat_photo", 0, c, None, NoTitle,
                                 Ok("delete_chat_photo", failing))>>
                     ELSE <<>>
               IN  /\ job_calls' = job_calls \o photos
                   /\ chat_photo' = PhotoAfter(photos)
           /\ job_pc' = next
           /\ UNCHANGED <<caches, watch, db, run, history, chat_title, job_seen, job_chats>>

\* The sweep is over: the job returns to the job queue (bot.py:884).
JobReturns ==
    /\ job_pc = "done"
    /\ job_pc' = "idle"
    /\ job_calls' = <<>>
    /\ job_seen' = <<>>
    /\ UNCHANGED <<caches, watch, db, platform, run, job_chats, history>>

\* ---------------------------------------------------------------- the platform
\* A member of the chat changes its title or its photo (what get_chat reads,
\* bot.py:397, 566, 601).
UserSetsTitle(c, t) ==
    /\ chat_title[c] # t
    /\ chat_title' = [chat_title EXCEPT ![c] = t]
    /\ UNCHANGED <<caches, watch, db, chat_photo, run, job, history>>

UserSetsPhoto(c, present) ==
    /\ chat_photo[c] # present
    /\ chat_photo' = [chat_photo EXCEPT ![c] = present]
    /\ UNCHANGED <<caches, watch, db, chat_title, run, job, history>>

\* ---------------------------------------------------------------- initial state
\* main (bot.py:840-842) on a fresh store: db_init, then load_caches.
Init ==
    /\ muted_cache = {}
    /\ banned_cache = {}
    /\ bot_muted_chats_cache = {}
    /\ locked_info_cache = <<>>
    /\ no_photo_chats_cache = {}
    /\ broadcast_lock_global = FALSE
    /\ clean_info_global = FALSE
    /\ watch_chats = {}
    /\ watch_left = <<>>
    /\ db = EmptyDb
    /\ chat_title = [c \in TitledChats |-> "A"]
    /\ chat_photo = [c \in TitledChats |-> FALSE]
    /\ run = Run("main", NoUpdate, <<>>, <<>>, <<>>, FALSE)
    /\ job_pc = "idle"
    /\ job_chats = <<>>
    /\ job_calls = <<>>
    /\ job_seen = <<>>
    /\ mute_acked = {}
    /\ tide_requested = {}

\* ---------------------------------------------------------------- dispatch
\* The handler that ran returns to the dispatch loop of run_polling
\* (bot.py:881-886), which then takes the next update.
NoRun == Run("", NoUpdate, <<>>, <<>>, <<>>, FALSE)

Returns ==
    /\ run # NoRun
    /\ run' = NoRun
    /\ UNCHANGED <<caches, watch, db, platform, job, history>>

\* The event loop runs one handler at a time: the next update, job turn or
\* change on the platform is taken once the last run has returned.
Ready == run = NoRun /\ job_pc # "done"

\* ---------------------------------------------------------------- inputs
Froms == {None} \cup (UserIds \ {BOT_ID})
Vias == {None} \cup BotAccounts
Forwards == {"none", "auto", "channel"}
Issuers == {OWNER_ID, 2}
CmdChats == {-1}

\* The argument lists of a command that takes an id: one id of ids, and the
\* malformed ones (none, two, not an integer).
IdArgs(ids) == {<<IntTok(i)>> : i \in ids}
BadArgs == {<<>>, <<BadTok>>, <<IntTok(2), IntTok(2)>>}

\* ---------------------------------------------------------------- moderation
\* The updates of the moderation pipeline: every combination of sender,
\* via-bot, sender-chat and forward in a supergroup and a channel, messages in
\* a private chat, and the info-change notices.
ModUpdates ==
    Messages({-1, -2}, Froms, Vias, {None, -2}, Forwards, {""})
    \cup Messages({2}, {2}, Vias, {None}, Forwards, {""})
    \cup Notices({-1, -2}, Froms, {None, -2})

ModTargets == {2, MaxUserId}

ModHandle ==
    Ready /\
    \E m \in ModUpdates, failing \in SUBSET {"delete_message"}, store_ok \in BOOLEAN :
        HandleAllMessages(m, failing, store_ok)
ModBan ==
    Ready /\
    \E c \in CmdChats, u \in Issuers, a \in IdArgs(ModTargets) \cup BadArgs :
        \E order \in Orders(get_all_known_chats) : CmdBan(c, u, a, order, {}, TRUE)
ModUnban ==
    Ready /\
    \E c \in CmdChats, u \in Issuers, a \in IdArgs(ModTargets) :
        \E order \in Orders(get_all_known_chats) : CmdUnban(c, u, a, order, {}, TRUE)
ModMute ==
    Ready /\
    \E c \in CmdChats, u \in Issuers, a \in IdArgs(ModTargets) :
        CmdMute(c, u, a, {}, TRUE)
ModUnmute ==
    Ready /\
    \E c \in CmdChats, u \in Issuers, a \in IdArgs(ModTargets) :
        CmdUnmute(c, u, a, {}, TRUE)
ModMuteBot ==
    Ready /\
    \E c \in CmdChats, u \in Issuers, a \in IdArgs({-1}) : CmdMuteBot(c, u, a, {}, TRUE)
ModUnmuteBot ==
    Ready /\
    \E c \in CmdChats, u \in Issuers, a \in IdArgs({-1}) : CmdUnmuteBot(c, u, a, {}, TRUE)
ModLockBroadcast ==
    Ready /\
    \E c \in CmdChats, u \in Issuers : CmdLockBroadcast(c, u, {}, TRUE)
ModUnlockBroadcast ==
    Ready /\
    \E c \in CmdChats, u \in Issuers : CmdUnlockBroadcast(c, u, {}, TRUE)
ModCleanInfoOn ==
    Ready /\
    \E c \in CmdChats, u \in Issuers : CmdCleanInfoOn(c, u, {}, TRUE)
ModCleanInfoOff ==
    Ready /\
    \E c \in CmdChats, u \in Issuers : CmdCleanInfoOff(c, u, {}, TRUE)

Next ==
    \/ Returns
    \/ ModHandle
    \/ ModBan
    \/ ModUnban
    \/ ModMute
    \/ ModUnmute
    \/ ModMuteBot
    \/ ModUnmuteBot
    \/ ModLockBroadcast
    \/ ModUnlockBroadcast
    \/ ModCleanInfoOn
    \/ ModCleanInfoOff

Spec == Init /\ [][Next]_vars

\* ---------------------------------------------------------------- tide
\* Who administers a chat is the platform's knowledge (get_chat_member,
\* bot.py:324-330): the owner and this bot, in the group-like chats.
ChatAdmins(c) == IF ChatType(c) \in GroupOrChannelKinds THEN {OWNER_ID, BOT_ID} ELSE {}

\* "/tide" is no registered command (bot.py:846-878): the update goes to
\* handle_all_messages like any other text.
TideUpdates ==
    Messages({-1}, UserIds \ {BOT_ID}, {None}, {None}, {"none"}, {"", "/tide"})

TideHandle ==
    Ready /\
    \E m \in TideUpdates, failing \in SUBSET {"delete_message"}, store_ok \in BOOLEAN :
        HandleAllMessages(m, failing, store_ok)

NextTide ==
    \/ Returns
    \/ TideHandle
    \/ ModBan
    \/ ModUnban
    \/ ModMute
    \/ ModUnmute
    \/ ModMuteBot
    \/ ModUnmuteBot

SpecTide == Init /\ [][NextTide]_vars

\* ---------------------------------------------------------------- info locks
\* Info-change notices and messages in the supergroup and the channel, with
\* and without a sender chat.
InfoUpdates ==
    Messages({-1, -2}, {2}, {None}, {None, -2}, {"none"}, {""})
    \cup Notices({-1, -2}, {2}, {None, -2})

InfoFailing == SUBSET {"set_chat_title", "delete_chat_photo", "delete_message"}

InfoHandle ==
    Ready /\
    \E m \in InfoUpdates, failing \in InfoFailing, store_ok \in BOOLEAN :
        HandleAllMessages(m, failing, store_ok)
InfoLock ==
    Ready /\
    \E c \in CmdChats, u \in Issuers :
        \E order \in Orders(get_all_known_chats), able \in SUBSET get_all_known_chats :
            CmdLockInfo(c, u, order, able, {}, TRUE, TRUE)
InfoUnlock ==
    Ready /\
    \E c \in CmdChats, u \in Issuers :
        \E order \in Orders(DOMAIN locked_info_cache) : CmdUnlockInfo(c, u, order, {}, TRUE)
InfoLockNoPhoto ==
    Ready /\
    \E c \in CmdChats, u \in Issuers, failing \in SUBSET {"delete_chat_photo"} :
        \E order \in Orders(get_all_known_chats), able \in SUBSET get_all_known_chats :
            CmdLockNoPhoto(c, u, order, able, failing, TRUE, TRUE)
InfoUnlockNoPhoto ==
    Ready /\
    \E c \in CmdChats, u \in Issuers :
        \E order \in Orders(no_photo_chats_cache) : CmdUnlockNoPhoto(c, u, order, {}, TRUE)
InfoSetsTitle ==
    Ready /\ \E c \in TitledChats, t \in Titles : UserSetsTitle(c, t)
InfoSetsPhoto ==
    Ready /\ \E c \in TitledChats, present \in BOOLEAN : UserSetsPhoto(c, present)

NextInfo ==
    \/ Returns
    \/ InfoHandle
    \/ InfoLock
    \/ InfoUnlock
    \/ InfoLockNoPhoto
    \/ InfoUnlockNoPhoto
    \/ InfoSetsTitle
    \/ InfoSetsPhoto
    \/ ModCleanInfoOn
    \/ ModCleanInfoOff

SpecInfo == Init /\ [][NextInfo]_vars

\* ---------------------------------------------------------------- the job
\* The job among the lock commands, the changes on the platform and the
\* messages that make the chats known.
JobUpdates == Messages({-1, -2}, {2}, {None}, {None}, {"none"}, {""})

JobHandle ==
    Ready /\ \E m \in JobUpdates : HandleAllMessages(m, {}, TRUE)
JobStarts ==
    Ready /\ \E order \in Orders(get_all_known_chats), store_ok \in BOOLEAN :
        JobStart(order, store_ok)
JobSteps ==
    Ready /\
    \E get_ok \in BOOLEAN, failing \in SUBSET {"set_chat_title", "delete_chat_photo"} :
        JobStep(get_ok, failing)

NextJob ==
    \/ Returns
    \/ JobHandle
    \/ JobStarts
    \/ JobSteps
    \/ JobReturns
    \/ InfoLock
    \/ InfoUnlock
    \/ InfoLockNoPhoto
    \/ InfoUnlockNoPhoto
    \/ InfoSetsTitle
    \/ InfoSetsPhoto

SpecJob == Init /\ [][NextJob]_vars

\* ---------------------------------------------------------------- store and restart
\* The mutators with a store that may fail, restarts, and messages of the
\* muted and banned users.
StoreUpdates ==
    Messages({-1}, {2, MaxUserId}, {None}, {None, -2}, {"none"}, {""})
    \cup Messages({2}, {2}, {None}, {None}, {"none"}, {""})

StoreHandle ==
    Ready /\
    \E m \in StoreUpdates, failing \in SUBSET {"delete_message"}, store_ok \in BOOLEAN :
        HandleAllMessages(m, failing, store_ok)
StoreMute ==
    Ready /\
    \E c \in CmdChats, u \in Issuers, a \in IdArgs(ModTargets) \cup BadArgs,
       store_ok \in BOOLEAN :
        CmdMute(c, u, a, {}, store_ok)
StoreUnmute ==
    Ready /\
    \E c \in CmdChats, u \in Issuers, a \in IdArgs(ModTargets), store_ok \in BOOLEAN :
        CmdUnmute(c, u, a, {}, store_ok)
StoreBan ==
    Ready /\
    \E c \in CmdChats, u \in Issuers, a \in IdArgs({2}), store_ok \in BOOLEAN :
        \E order \in Orders(get_all_known_chats) : CmdBan(c, u, a, order, {}, store_ok)
StoreUnban ==
    Ready /\
    \E c \in CmdChats, u \in Issuers, a \in IdArgs({2}), store_ok \in BOOLEAN :
        \E order \in Orders(get_all_known_chats) : CmdUnban(c, u, a, order, {}, store_ok)
StoreMuteBot ==
    Ready /\
    \E c \in CmdChats, u \in Issuers, a \in IdArgs({-1}), store_ok \in BOOLEAN :
        CmdMuteBot(c, u, a, {}, store_ok)
StoreCleanInfoOn ==
    Ready /\
    \E c \in CmdChats, u \in Issuers, store_ok \in BOOLEAN :
        CmdCleanInfoOn(c, u, {}, store_ok)
StoreRestart == Ready /\ Restart

NextStore ==
    \/ Returns
    \/ StoreHandle
    \/ StoreMute
    \/ StoreUnmute
    \/ StoreBan
    \/ StoreUnban
    \/ StoreMuteBot
    \/ StoreCleanInfoOn
    \/ StoreRestart

SpecStore == Init /\ [][NextStore]_vars

\* ---------------------------------------------------------------- commands
\* Every command of main (bot.py:846-878), from the owner and from a
\* stranger, with good and with malformed arguments; messages in the channel
\* make it a known chat.
CmdUpdates == Messages({-2}, {2}, {None}, {None}, {"none"}, {""})
CmdTargets == {2}
CmdArgs == IdArgs(CmdTargets) \cup BadArgs
CmdChatArgs == IdArgs({-1}) \cup BadArgs

AnyHandle ==
    Ready /\ \E m \in CmdUpdates : HandleAllMessages(m, {}, TRUE)
AnyMute ==
    Ready /\ \E c \in CmdChats, u \in Issuers, a \in CmdArgs : CmdMute(c, u, a, {}, TRUE)
AnyUnmute ==
    Ready /\ \E c \in CmdChats, u \in Issuers, a \in CmdArgs : CmdUnmute(c, u, a, {}, TRUE)
AnyBan ==
    Ready /\
    \E c \in CmdChats, u \in Issuers, a \in CmdArgs, order \in Orders(get_all_known_chats) :
        CmdBan(c, u, a, order, {}, TRUE)
AnyUnban ==
    Ready /\
    \E c \in CmdChats, u \in Issuers, a \in CmdArgs, order \in Orders(get_all_known_chats) :
        CmdUnban(c, u, a, order, {}, TRUE)
AnyAdmin ==
    Ready /\
    \E c \in CmdChats, u \in Issuers, a \in CmdArgs, order \in Orders(get_all_known_chats),
       failing \in SUBSET {"promote_chat_member"} :
        CmdAdmin(c, u, a, order, failing, TRUE)
AnyMuteBot ==
    Ready /\ \E c \in CmdChats, u \in Issuers, a \in CmdChatArgs : CmdMuteBot(c, u, a, {}, TRUE)
AnyUnmuteBot ==
    Ready /\ \E c \in CmdChats, u \in Issuers, a \in CmdChatArgs : CmdUnmuteBot(c, u, a, {}, TRUE)
AnyChatId ==
    Ready /\ \E c \in CmdChats, u \in Issuers : CmdChatId(c, u, {})
AnyTestDelete ==
    Ready /\
    \E c \in CmdChats, u \in Issuers, replied \in BOOLEAN, failing \in SUBSET {"delete_message"} :
        CmdTestDelete(c, u, replied, failing)
AnyDbg ==
    Ready /\ \E c \in CmdChats, u \in Issuers, replied \in BOOLEAN : CmdDbg(c, u, replied, {})
AnyWatch ==
    Ready /\ \E c \in CmdChats \cup {2}, u \in Issuers : CmdWatch(c, u, {})
AnyUnwatch ==
    Ready /\ \E c \in CmdChats, u \in Issuers : CmdUnwatch(c, u, {})

NextCmd ==
    \/ Returns
    \/ AnyHandle
    \/ AnyMute
    \/ AnyUnmute
    \/ AnyBan
    \/ AnyUnban
    \/ AnyAdmin
    \/ AnyMuteBot
    \/ AnyUnmuteBot
    \/ AnyChatId
    \/ AnyTestDelete
    \/ AnyDbg
    \/ AnyWatch
    \/ AnyUnwatch
    \/ InfoLock
    \/ InfoUnlock
    \/ InfoLockNoPhoto
    \/ InfoUnlockNoPhoto
    \/ ModLockBroadcast
    \/ ModUnlockBroadcast
    \/ ModCleanInfoOn
    \/ ModCleanInfoOff

SpecCmd == Init /\ [][NextCmd]_vars

\* ---------------------------------------------------------------- failing calls
\* Info-change notices and messages of user 2 in the supergroup, watched or
\* not, with any of the transport methods failing.  The handler reads the
\* three notice fields one by one (bot.py:764, 772, 377-382), so the notices
\* here carry any combination of them.
IsoUpdates ==
    {Update(-1, 2, None, None, nt, np, dp, "none", "") :
        nt \in Titles \cup {NoTitle}, np \in BOOLEAN, dp \in BOOLEAN}

IsoFailing ==
    SUBSET {"send_message", "set_chat_title", "delete_chat_photo", "delete_message",
            "ban_chat_member"}

IsoHandle ==
    Ready /\ \E m \in IsoUpdates, failing \in IsoFailing : HandleAllMessages(m, failing, TRUE)

NextIso ==
    \/ Returns
    \/ IsoHandle
    \/ AnyWatch
    \/ AnyUnwatch
    \/ AnyBan
    \/ InfoLock
    \/ InfoLockNoPhoto
    \/ ModCleanInfoOn
    \/ ModCleanInfoOff

SpecIso == Init /\ [][NextIso]_vars

\* ---------------------------------------------------------------- policy changes
\* The policy commands of the owner while the store rejects every policy
\* write (the insert or delete of each mutator raises), each followed by the
\* events and the sweeps that read the policy: messages of a user and of a
\* relay bot in the supergroup, title and photo notices in the channel, and
\* sweeps that run between two updates.
VisUpdates ==
    Messages({-1}, {2}, {None, MaxUserId}, {None}, {"none"}, {""})
    \cup Notices({-2}, {2}, {None})
\* The outcomes of a policy write while the store is down.
VisStoreOk == {FALSE}
\* A sweep is not interleaved with updates here: the next update is taken
\* once the sweep is over.
VisIdle == Ready /\ job_pc = "idle"

\* One update, one policy command of the owner, one change on the platform
\* or one turn of the job at a time.
NextVis ==
    \/ Returns
    \/ VisIdle /\ \E m \in VisUpdates : HandleAllMessages(m, {}, TRUE)
    \/ VisIdle /\ \E a \in IdArgs({2}), store_ok \in VisStoreOk :
          CmdMute(-1, OWNER_ID, a, {}, store_ok)
    \/ VisIdle /\ \E a \in IdArgs({2}), store_ok \in VisStoreOk :
          CmdUnmute(-1, OWNER_ID, a, {}, store_ok)
    \/ VisIdle /\ \E a \in IdArgs({2}), store_ok \in VisStoreOk :
          \E order \in Orders(get_all_known_chats) :
              CmdBan(-1, OWNER_ID, a, order, {}, store_ok)
    \/ VisIdle /\ \E a \in IdArgs({2}), store_ok \in VisStoreOk :
          \E order \in Orders(get_all_known_chats) :
              CmdUnban(-1, OWNER_ID, a, order, {}, store_ok)
    \/ VisIdle /\ \E a \in IdArgs({-1}), store_ok \in VisStoreOk :
          CmdMuteBot(-1, OWNER_ID, a, {}, store_ok)
    \/ VisIdle /\ \E a \in IdArgs({-1}), store_ok \in VisStoreOk :
          CmdUnmuteBot(-1, OWNER_ID, a, {}, store_ok)
    \/ VisIdle /\ \E store_ok \in VisStoreOk : CmdCleanInfoOn(-1, OWNER_ID, {}, store_ok)
    \/ VisIdle /\ \E store_ok \in VisStoreOk : CmdCleanInfoOff(-1, OWNER_ID, {}, store_ok)
    \/ VisIdle /\ \E write_ok \in VisStoreOk :
          \E order \in Orders(get_all_known_chats), able \in SUBSET get_all_known_chats :
              CmdLockInfo(-1, OWNER_ID, order, able, {}, TRUE, write_ok)
    \/ VisIdle /\ \E store_ok \in VisStoreOk :
          \E order \in Orders(DOMAIN locked_info_cache) :
              CmdUnlockInfo(-1, OWNER_ID, order, {}, store_ok)
    \/ VisIdle /\ \E write_ok \in VisStoreOk :
          \E order \in Orders(get_all_known_chats), able \in SUBSET get_all_known_chats :
              CmdLockNoPhoto(-1, OWNER_ID, order, able, {}, TRUE, write_ok)
    \/ VisIdle /\ \E store_ok \in VisStoreOk :
          \E order \in Orders(no_photo_chats_cache) :
              CmdUnlockNoPhoto(-1, OWNER_ID, order, {}, store_ok)
    \/ VisIdle /\ \E t \in Titles : UserSetsTitle(-2, t)
    \/ VisIdle /\ \E present \in BOOLEAN : UserSetsPhoto(-2, present)
    \/ JobStarts
    \/ Ready /\ \E get_ok \in BOOLEAN : JobStep(get_ok, {})
    \/ JobReturns

SpecVis == Init /\ [][NextVis]_vars

\* ---------------------------------------------------------------- private chats
\* The lock commands and restarts next to updates of a supergroup and of a
\* private chat.  The updates of the private chat carry every combination of
\* the info-change fields, also those the platform sends for group-like chats
\* only, so that a lock on a private chat would show.
NextPriv ==
    \/ Returns
    \/ Ready /\ \E c \in {-1, 2}, nt \in Titles \cup {NoTitle}, np \in BOOLEAN, dp \in BOOLEAN :
          HandleAllMessages(Update(c, 2, None, None, nt, np, dp, "none", ""), {}, TRUE)
    \/ InfoLock
    \/ InfoUnlock
    \/ InfoLockNoPhoto
    \/ InfoUnlockNoPhoto
    \/ InfoSetsTitle
    \/ InfoSetsPhoto
    \/ StoreRestart

SpecPriv == Init /\ [][NextPriv]_vars

\* ---------------------------------------------------------------- cache and store
\* Every policy command of the owner against a store that accepts or rejects
\* its statement, with restarts in between.  The channel becomes known by a
\* post, so that the lock commands have a chat to lock.
NextSync ==
    \/ Returns
    \/ Ready /\ HandleAllMessages(Update(-2, None, None, -2, NoTitle, FALSE, FALSE, "none", ""),
                                  {}, TRUE)
    \/ Ready /\ \E a \in IdArgs({2}), store_ok \in BOOLEAN :
          \/ CmdMute(-1, OWNER_ID, a, {}, store_ok)
          \/ CmdUnmute(-1, OWNER_ID, a, {}, store_ok)
    \/ Ready /\ \E a \in IdArgs({2}), store_ok \in BOOLEAN :
          \E order \in Orders(get_all_known_chats) :
              \/ CmdBan(-1, OWNER_ID, a, order, {}, store_ok)
              \/ CmdUnban(-1, OWNER_ID, a, order, {}, store_ok)
    \/ Ready /\ \E a \in IdArgs({-1}), store_ok \in BOOLEAN :
          \/ CmdMuteBot(-1, OWNER_ID, a, {}, store_ok)
          \/ CmdUnmuteBot(-1, OWNER_ID, a, {}, store_ok)
    \/ Ready /\ \E store_ok \in BOOLEAN :
          \/ CmdLockBroadcast(-1, OWNER_ID, {}, store_ok)
          \/ CmdUnlockBroadcast(-1, OWNER_ID, {}, store_ok)
    \/ Ready /\ \E store_ok \in BOOLEAN :
          \/ CmdCleanInfoOn(-1, OWNER_ID, {}, store_ok)
          \/ CmdCleanInfoOff(-1, OWNER_ID, {}, store_ok)
    \/ Ready /\ \E store_ok \in BOOLEAN :
          \E order \in Orders(get_all_known_chats), able \in SUBSET get_all_known_chats :
              \/ CmdLockInfo(-1, OWNER_ID, order, able, {}, store_ok, TRUE)
              \/ CmdLockNoPhoto(-1, OWNER_ID, order, able, {}, store_ok, TRUE)
    \/ Ready /\ \E store_ok \in BOOLEAN :
          \/ \E order \in Orders(DOMAIN locked_info_cache) :
                CmdUnlockInfo(-1, OWNER_ID, order, {}, store_ok)
          \/ \E order \in Orders(no_photo_chats_cache) :
                CmdUnlockNoPhoto(-1, OWNER_ID, order, {}, store_ok)
    \/ StoreRestart

SpecSync == Init /\ [][NextSync]_vars

\* ---------------------------------------------------------------- interleaving
\* The job at the grain of its awaits next to the lock commands, the notices
\* of the channel and the changes of its title and photo: a command or an
\* update is handled whenever the job is suspended.
NextRace ==
    \/ Returns
    \/ Ready /\ \E m \in Notices({-1, -2}, {2}, {None}) : HandleAllMessages(m, {}, TRUE)
    \/ InfoLock
    \/ InfoUnlock
    \/ InfoLockNoPhoto
    \/ InfoUnlockNoPhoto
    \/ Ready /\ \E t \in Titles : UserSetsTitle(-2, t)
    \/ Ready /\ \E present \in BOOLEAN : UserSetsPhoto(-2, present)
    \/ JobStarts
    \/ Ready /\ \E get_ok \in BOOLEAN, failing \in SUBSET {"set_chat_title"} :
          JobAwaits(get_ok, failing)
    \/ JobReturns

SpecRace == Init /\ [][NextRace]_vars

\* ---------------------------------------------------------------- properties
Handled == run.handler = "handle_all_messages"
Processed == Handled /\ ~run.raised
InGroup(m) == ChatType(m.chat) \in GroupKinds
CallsOf(api) == {i \in 1..Len(run.calls) : run.calls[i].api = api}
CallsOfRule(rule) == {i \in 1..Len(run.calls) : run.calls[i].rule = rule}
RulesRun == Range(run.rules)
UserRules == 8..11

\* C1: whenever handle_all_messages processes a message that a globally
\* banned user posted in a group or supergroup, it calls ban_chat_member for
\* that chat and user, whatever else is true of the message.
C1_BannedSenderIsBanned ==
    (/\ Processed
     /\ InGroup(run.update)
     /\ run.update.from_user # None
     /\ run.update.from_user \in banned_cache)
    => \E i \in CallsOf("ban_chat_member") :
          /\ run.calls[i].chat = run.update.chat
          /\ run.calls[i].user = run.update.from_user

\* The handler deleted the message and issued nothing after that.
DeletedAndStopped ==
    /\ run.calls # <<>>
    /\ run.calls[Len(run.calls)].api = "delete_message"

\* C2: while the broadcast lock is set, an update in a channel that this bot
\* did not author is deleted, and nothing is issued for it after that.
C2_ChannelLockDeletes ==
    (/\ Processed
     /\ broadcast_lock_global
     /\ ChatType(run.update.chat) = "channel"
     /\ ~is_message_from_this_bot(run.update))
    => DeletedAndStopped

\* C3: while the broadcast lock is set, a broadcast-shaped update in a group or
\* supergroup that this bot did not author is deleted, and nothing is issued
\* for it after that; also when an ordinary user forwarded it and it has no sender chat.
C3_GroupLockDeletesBroadcasts ==
    (/\ Processed
     /\ broadcast_lock_global
     /\ InGroup(run.update)
     /\ is_broadcast_like(run.update)
     /\ ~is_message_from_this_bot(run.update))
    => DeletedAndStopped

\* A message with a sender chat, from or via a bot, in a bot-muted group.
SenderChatInBotMutedChat ==
    /\ Handled
    /\ InGroup(run.update)
    /\ run.update.sender_chat # None
    /\ run.update.chat \in bot_muted_chats_cache
    /\ \/ run.update.from_user # None /\ IsBotAccount(run.update.from_user)
       \/ run.update.via_bot # None

\* C4: for a message with a sender chat in a bot-muted group, the sender-chat
\* rule comes before the bot-mute rule: the bot-mute rule and the rules after
\* it are never evaluated and issue nothing, at most one delete is issued, and
\* once the sender-chat rule is reached exactly one delete is issued, by it.
C4_SenderChatBeforeBotMute ==
    SenderChatInBotMutedChat
    => /\ RulesRun \cap 9..11 = {}
       /\ \A i \in 1..Len(run.calls) : run.calls[i].rule \notin 9..11
       /\ Cardinality(CallsOf("delete_message")) <= 1
       /\ 8 \in RulesRun =>
             /\ Cardinality(CallsOf("delete_message")) = 1
             /\ CallsOf("delete_message") = CallsOfRule(8)

C4_Witness ==
    /\ SenderChatInBotMutedChat
    /\ 8 \in RulesRun
    /\ Cardinality(CallsOfRule(8)) = 1
    /\ run.update.from_user \in banned_cache \cap muted_cache

\* C10: for an update in a channel or a private chat the rules of user
\* moderation (sender chat, bot mute, global ban, global mute) are not
\* evaluated and issue neither a ban nor a delete.
C10_NoUserModerationOutsideGroups ==
    (Handled /\ ChatType(run.update.chat) \in {"channel", "private"})
    => /\ RulesRun \cap UserRules = {}
       /\ CallsOf("ban_chat_member") = {}
       /\ \A i \in 1..Len(run.calls) : run.calls[i].rule \notin UserRules

C10_Witness ==
    /\ Handled
    /\ ChatType(run.update.chat) = "channel"
    /\ 7 \in RulesRun
    /\ run.update.sender_chat # None
    /\ run.update.from_user \in banned_cache \cap muted_cache
    /\ IsBotAccount(run.update.from_user)
    /\ run.calls = <<>>

\* ---------------------------------------------------------------- title idempotence
\* The calls the job added in this step.
NewJobCalls == SubSeq(job_calls', Len(job_calls) + 1, Len(job_calls'))

\* The handler ran in this step.
HandlerStep == run = NoRun /\ run'.handler = "handle_all_messages"

\* The job visited one chat in this step.
JobVisit == Len(job_seen') = Len(job_seen) + 1

\* C5: no set_chat_title is issued for a chat whose live title already is
\* the title of the call, neither by handle_all_messages on a title-changed
\* notice nor by a sweep of the job.
C5_NoRevertOfDesiredTitle ==
    [][/\ HandlerStep =>
            \A i \in 1..Len(run'.calls) :
                run'.calls[i].api = "set_chat_title"
                => chat_title[run'.calls[i].chat] # run'.calls[i].title
       /\ JobVisit =>
            \A i \in 1..Len(NewJobCalls) :
                NewJobCalls[i].api = "set_chat_title"
                => chat_title[NewJobCalls[i].chat] # NewJobCalls[i].title]_vars

\* ---------------------------------------------------------------- the sweep
\* A sweep visits no chat twice.
SweepVisitsOnce ==
    LET all == [i \in 1..Len(job_seen) |-> job_seen[i].chat] \o job_chats
    IN  \A i, j \in 1..Len(all) : all[i] = all[j] => i = j

\* What the job may issue for the chat it visits, from the state it read.
JobVisitCalls ==
    LET c == Head(job_chats)
        seen == job_seen'[Len(job_seen')]
        new == NewJobCalls
        titles == {i \in 1..Len(new) : new[i].api = "set_chat_title"}
        locked == c \in DOMAIN locked_info_cache
    IN  /\ \A i \in 1..Len(new) :
              new[i].chat = c /\ new[i].api \in {"set_chat_title", "delete_chat_photo"}
        /\ ChatType(c) # "channel" => new = <<>>
        /\ (seen.ok /\ ChatType(c) = "channel") =>
              /\ (locked /\ locked_info_cache[c].title # chat_title[c])
                 => /\ Cardinality(titles) = 1
                    /\ \A i \in titles : new[i].title = locked_info_cache[c].title
              /\ (locked /\ locked_info_cache[c].title = chat_title[c]) => titles = {}
              /\ ~locked => titles = {}

\* C6: in one sweep the job visits every known chat once; for a channel it
\* could read it issues exactly one set_chat_title when the chat has a locked
\* title that differs from the live one and none when it has no locked title
\* (or the titles agree); a chat that is no channel gets no call at all.
C6_SweepCalls == []SweepVisitsOnce /\ [][JobVisit => JobVisitCalls]_vars

C6_Witness ==
    /\ job_pc = "done"
    /\ Len(job_seen) = 2
    /\ \A i \in 1..2 : job_seen[i].ok /\ job_seen[i].chat \in DOMAIN locked_info_cache
    /\ \E i \in 1..2 : /\ job_seen[i].chat = -1
                       /\ job_seen[i].title # locked_info_cache[-1].title
                       /\ job_seen[i].photo
    /\ -1 \in no_photo_chats_cache
    /\ Len(job_calls) = 1
    /\ job_calls[1].api = "set_chat_title"
    /\ job_calls[1].chat = -2

\* ---------------------------------------------------------------- durability of mutes
\* C7: an id whose add_mute completed, with no remove_mute after it, is in
\* the store; a restart that rebuilds the caches from the store alone leaves
\* it in muted_cache, and the mute rule, once reached for a group message of
\* a muted sender, deletes the message.
C7_MuteSurvivesRestart ==
    /\ mute_acked \subseteq db.muted_users
    /\ run.handler = "main" => mute_acked \subseteq muted_cache
    /\ (Handled /\ 11 \in RulesRun /\ run.update.from_user \in muted_cache)
       => \E i \in CallsOfRule(11) :
              /\ run.calls[i].api = "delete_message"
              /\ run.calls[i].chat = run.update.chat

\* The first message of a muted sender after a restart that followed a failed
\* /unban and a failed /mute of somebody else.
C7_Witness ==
    /\ Handled
    /\ run.update.from_user \in mute_acked
    /\ muted_cache = db.muted_users
    /\ mute_acked # muted_cache
    /\ banned_cache # {}
    /\ watch_chats = {}
    /\ \E i \in CallsOfRule(11) : run.calls[i].api = "delete_message" /\ run.calls[i].ok

\* ---------------------------------------------------------------- tide mode
\* C8: while the owner's /tide has put a chat into tide mode, a post in it by
\* somebody who is neither the owner nor an admin of the chat is deleted and
\* its sender is banned from the chat.
C8_TideDeletesAndBans ==
    (Processed /\ run.update.chat \in tide_requested
        /\ run.update.from_user \notin {None, OWNER_ID} \cup ChatAdmins(run.update.chat))
    => /\ CallsOf("delete_message") # {}
       /\ \E i \in CallsOf("ban_chat_member") :
              /\ run.calls[i].chat = run.update.chat
              /\ run.calls[i].user = run.update.from_user

\* ---------------------------------------------------------------- revert before sweep
\* The info-change notice that the clean-info rule has to sweep.
SweptNotice == Handled /\ CleanInfoDue(run.update)

\* C9: for an info-change notice under the clean-info flag the title revert
\* and the photo deletion that are due come before the delete of the notice;
\* the revert rules never end the pipeline, and the delete of the notice is
\* the last thing done: no rule of user moderation runs for the event.
C9_RevertBeforeSweep ==
    /\ (Handled /\ 4 \in RulesRun) => {5, 6} \subseteq RulesRun
    /\ SweptNotice => /\ RulesRun \cap 7..11 = {}
                      /\ \A i \in 1..Len(run.calls) : run.calls[i].rule \notin 7..11
    /\ (SweptNotice /\ 6 \in RulesRun) =>
          /\ Cardinality(CallsOf("delete_message")) = 1
          /\ run.calls[Len(run.calls)].api = "delete_message"
          /\ run.calls[Len(run.calls)].rule = 6
          /\ TitleLockDue(run.update) =>
                \E i \in CallsOf("set_chat_title") :
                    /\ run.calls[i].chat = run.update.chat
                    /\ run.calls[i].title = locked_info_cache[run.update.chat].title
          /\ NoPhotoDue(run.update) =>
                \E i \in CallsOf("delete_chat_photo") : run.calls[i].chat = run.update.chat

C9_Witness ==
    /\ SweptNotice
    /\ TitleLockDue(run.update)
    /\ run.update.sender_chat # None
    /\ ChatType(run.update.chat) = "supergroup"
    /\ Len(run.calls) = 2
    /\ run.calls[1].api = "set_chat_title"
    /\ run.calls[2].api = "delete_message"

\* ---------------------------------------------------------------- muted senders
\* Some handler ran for an update and did not raise.
Dispatched == run.handler \notin {"", "main"} /\ ~run.raised

\* C11: a message in a group or supergroup of a muted non-owner sender (or
\* relayed via a muted bot), whichever handler the dispatcher gave it to, is
\* deleted, unless an earlier rule consumed it with a delete or a ban of its
\* own.
C11_MutedSenderIsDeleted ==
    (/\ Dispatched
     /\ InGroup(run.update)
     /\ ~owner_only(run.update.from_user)
     /\ {run.update.from_user, run.update.via_bot} \cap muted_cache # {})
    => \E i \in 1..Len(run.calls) :
           /\ run.calls[i].api \in {"delete_message", "ban_chat_member"}
           /\ run.calls[i].chat = run.update.chat

\* ---------------------------------------------------------------- commands
\* A command handler ran in this step.
CommandStep == run = NoRun /\ run'.handler \notin {"", "main", "handle_all_messages"}

\* Nothing the bot keeps or shows has changed in this step.
NothingChanged == UNCHANGED <<caches, watch, db, platform, job, history>>

\* C12: a command of a user who is not the owner is rejected silently,
\* whatever the command: no cache, flag, watch state or store table changes,
\* the store is not read, and no transport call and no reply is issued.
C12_StrangersAreIgnored ==
    [][(CommandStep /\ run'.update.from_user # OWNER_ID)
       => /\ NothingChanged
          /\ run'.calls = <<>>
          /\ run'.selects = {}
          /\ ~run'.raised]_vars

C12_Witness ==
    /\ run.handler = "/unban"
    /\ run.update.from_user = 2
    /\ run.args = <<IntTok(2)>>
    /\ banned_cache = {2}
    /\ db.known_chats # {}
    /\ run.calls = <<>>

\* The commands that take one id.
IdCommands == {"/mute", "/unmute", "/ban", "/unban", "/admin", "/mutebot", "/unmutebot"}

\* The argument list is one integer literal.
WellFormed(args) == Len(args) = 1 /\ args[1].is_int

\* C13: an id command of the owner with no argument, several arguments or an
\* argument that is no integer is answered with one reply (the usage text)
\* and changes nothing: no cache, no store table, and no ban, unban or promote
\* call.
C13_MalformedArgsChangeNothing ==
    [][(/\ CommandStep
        /\ run'.update.from_user = OWNER_ID
        /\ run'.handler \in IdCommands
        /\ ~WellFormed(run'.args))
       => /\ NothingChanged
          /\ Len(run'.calls) = 1
          /\ run'.calls[1].api = "reply_text"
          /\ run'.calls[1].chat = run'.update.chat
          /\ run'.selects = {}]_vars

C13_Witness ==
    /\ run.handler = "/ban"
    /\ run.update.from_user = OWNER_ID
    /\ Len(run.args) = 2
    /\ banned_cache = {}
    /\ db.known_chats # {}
    /\ Len(run.calls) = 1

\* ---------------------------------------------------------------- store reads
\* C14: once the caches are loaded no handler selects from the store: every
\* run after startup decides from memory alone.
C14_NoSelectAfterStartup == run.handler # "main" => run.selects = {}

\* ---------------------------------------------------------------- failures in the sweep
\* The visit of a chat, whatever failed in it, leaves the rest of the sweep
\* as it was, and the photo of a channel under no-photo is deleted also when
\* the set_chat_title before it failed.
JobVisitIsolated ==
    LET c == Head(job_chats)
        seen == job_seen'[Len(job_seen')]
        new == NewJobCalls
    IN  /\ seen.chat = c
        /\ job_chats' = Tail(job_chats)
        /\ job_pc' = IF Tail(job_chats) = <<>> THEN "done" ELSE "loop"
        /\ (seen.ok /\ ChatType(c) = "channel" /\ JobTitleDue(c))
           => \E i \in 1..Len(new) : new[i].api = "set_chat_title" /\ new[i].chat = c
        /\ (seen.ok /\ ChatType(c) = "channel" /\ JobPhotoDue(c))
           => \E i \in 1..Len(new) : new[i].api = "delete_chat_photo" /\ new[i].chat = c

\* C15: a get_chat, set_chat_title or delete_chat_photo that fails for one
\* chat does not end the sweep: the job goes on with every chat that is left,
\* each gets the calls due for it, and a failed set_chat_title does not keep
\* the delete_chat_photo of the same chat from being issued.
C15_SweepSurvivesFailures ==
    /\ [](job_pc = "done" => job_chats = <<>>)
    /\ [](job_pc = "loop" => job_chats # <<>>)
    /\ [][JobVisit => JobVisitIsolated]_vars

C15_Witness ==
    /\ job_pc = "done"
    /\ Len(job_seen) = 2
    /\ ~job_seen[1].ok
    /\ job_seen[2].ok
    /\ job_seen[2].chat = -2
    /\ Len(job_calls) = 2
    /\ job_calls[1].api = "set_chat_title" /\ ~job_calls[1].ok
    /\ job_calls[2].api = "delete_chat_photo"

\* ---------------------------------------------------------------- failures in the handler
\* A call of the run, by method and rule.
Issued(api, rule) ==
    \E i \in 1..Len(run.calls) : run.calls[i].api = api /\ run.calls[i].rule = rule

\* C16: in handle_all_messages no transport call that fails keeps back what
\* else is due for the event: the set_chat_title, the delete_chat_photo and
\* the clean-info delete of a notice are each issued when due, whatever
\* failed before them, and the rules after the debug watch are evaluated
\* (a banned sender is banned) also when the watch report failed.
C16_HandlerCallsAreIsolated ==
    Processed =>
        /\ {2, 4, 5, 6} \subseteq RulesRun
        /\ TitleLockDue(run.update) => Issued("set_chat_title", 4)
        /\ NoPhotoDue(run.update) => Issued("delete_chat_photo", 5)
        /\ CleanInfoDue(run.update) => Issued("delete_message", 6)
        /\ ~CleanInfoDue(run.update) => 7 \in RulesRun
        /\ (/\ ~CleanInfoDue(run.update)
            /\ InGroup(run.update)
            /\ run.update.sender_chat = None
            /\ ~BotMuteDue(run.update)
            /\ run.update.from_user \in banned_cache \ {None})
           => Issued("ban_chat_member", 10)

C16_Witness ==
    /\ Processed
    /\ Len(run.calls) = 5
    /\ run.calls[1].api = "send_message" /\ run.calls[1].rule = 2 /\ ~run.calls[1].ok
    /\ run.calls[2].api = "set_chat_title" /\ ~run.calls[2].ok
    /\ run.calls[3].api = "send_message" /\ run.calls[3].rule = 4 /\ ~run.calls[3].ok
    /\ run.calls[4].api = "delete_chat_photo" /\ run.calls[4].ok
    /\ run.calls[5].api = "delete_message" /\ run.calls[5].rule = 6

\* ---------------------------------------------------------------- nothing escapes
\* C17: whatever fails while handle_all_messages runs, the store insert of
\* the chat included, nothing is raised out of the handler and the rules
\* after the chat discovery are evaluated for the event.
C17_HandlerNeverRaises ==
    Handled => ~run.raised /\ {2, 4, 5, 6} \subseteq RulesRun

\* ---------------------------------------------------------------- bot mute
\* The bot-mute rule applies to the update of the run and was reached.
BotMuteApplies ==
    /\ Handled
    /\ InGroup(run.update)
    /\ 9 \in RulesRun
    /\ BotMuteDue(run.update)

\* C18: the bot-mute rule, once it applies, makes one delete attempt and ends
\* the pipeline whether or not the delete worked: no ban and no second
\* delete is issued for the event.
C18_BotMuteStopsPipeline ==
    BotMuteApplies =>
        /\ Cardinality(CallsOf("delete_message")) = 1
        /\ CallsOf("ban_chat_member") = {}

\* ---------------------------------------------------------------- ban targets
\* The update of the run was relayed via a banned bot for a sender who is not
\* banned, and the ban rule was reached.
RelayedViaBannedBot ==
    /\ Handled
    /\ 10 \in RulesRun
    /\ run.update.via_bot \in banned_cache \ {None}
    /\ run.update.from_user \notin banned_cache

\* C19: every ban_chat_member of handle_all_messages is for the from_user of
\* the event, who is banned, in the group or supergroup of the event; a
\* message relayed via a banned bot for a sender who is not banned is deleted
\* by the ban rule, which ends the pipeline, and nobody is banned for it.
C19_BanTargetsTheSender ==
    /\ Handled =>
          \A i \in CallsOf("ban_chat_member") :
              /\ run.calls[i].user = run.update.from_user
              /\ run.calls[i].user \in banned_cache \ {None}
              /\ run.calls[i].chat = run.update.chat
              /\ InGroup(run.update)
    /\ RelayedViaBannedBot =>
          /\ CallsOf("ban_chat_member") = {}
          /\ run.calls[Len(run.calls)].api = "delete_message"
          /\ run.calls[Len(run.calls)].rule = 10
          /\ 11 \notin RulesRun

C19_Witness ==
    /\ RelayedViaBannedBot
    /\ run.update.via_bot = MaxUserId
    /\ run.update.from_user = 2
    /\ 2 \in muted_cache
    /\ Len(run.calls) = 1
    /\ run.calls[1].rule = 10

\* ---------------------------------------------------------------- policy changes are visible
\* What a policy command of the owner has put into the caches when it
\* returns, by answering or by raising.
MutatorLanded ==
    LET h == run'.handler
        a == run'.args[1].value
    IN  /\ h = "/mute" => a \in muted_cache'
        /\ h = "/unmute" => a \notin muted_cache'
        /\ h = "/ban" => a \in banned_cache'
        /\ h = "/unban" => a \notin banned_cache'
        /\ h = "/mutebot" => a \in bot_muted_chats_cache'
        /\ h = "/unmutebot" => a \notin bot_muted_chats_cache'
        /\ h = "/cleaninfo_global_on" => clean_info_global'
        /\ h = "/cleaninfo_global_off" => ~clean_info_global'
        /\ h = "/lockinfo" =>
              /\ DOMAIN locked_info_cache \subseteq DOMAIN locked_info_cache'
              /\ \A k \in DOMAIN locked_info_cache' :
                    \/ /\ k \in DOMAIN locked_info_cache
                       /\ locked_info_cache'[k] = locked_info_cache[k]
                    \/ locked_info_cache'[k] = LockedInfo(chat_title[k], PhotoFileId(k))
              /\ \A k \in DOMAIN db'.locked_group_info :
                    \/ /\ k \in DOMAIN db.locked_group_info
                       /\ db'.locked_group_info[k] = db.locked_group_info[k]
                    \/ /\ k \in DOMAIN locked_info_cache'
                       /\ locked_info_cache'[k] = db'.locked_group_info[k]
        /\ h = "/unlockinfo" =>
              IF run'.raised
              THEN \E k \in DOMAIN locked_info_cache :
                      locked_info_cache' = Without(locked_info_cache, k)
              ELSE locked_info_cache' = <<>>
        /\ h = "/locknophoto" =>
              /\ no_photo_chats_cache \subseteq no_photo_chats_cache'
              /\ db'.no_photo_chats \ db.no_photo_chats \subseteq no_photo_chats_cache'
        /\ h = "/unlocknophoto" =>
              IF run'.raised
              THEN \E k \in no_photo_chats_cache :
                      no_photo_chats_cache' = no_photo_chats_cache \ {k}
              ELSE no_photo_chats_cache' = {}

\* The handler decides every rule it reaches by the caches as they are when
\* the event arrives.
HandlerReadsCaches ==
    LET m == run'.update
        rules == Range(run'.rules)
        did(api, rule) ==
            \E i \in 1..Len(run'.calls) :
                run'.calls[i].api = api /\ run'.calls[i].rule = rule
    IN  /\ 4 \in rules => (TitleLockDue(m) <=> did("set_chat_title", 4))
        /\ 5 \in rules => (NoPhotoDue(m) <=> did("delete_chat_photo", 5))
        /\ 6 \in rules => (CleanInfoDue(m) <=> did("delete_message", 6))
        /\ 9 \in rules => (BotMuteDue(m) <=> did("delete_message", 9))
        /\ 10 \in rules => (m.from_user \in banned_cache <=> did("ban_chat_member", 10))
        /\ 11 \in rules =>
              (message_ids_to_check(m) \cap muted_cache # {} <=> did("delete_message", 11))

\* The job decides by the caches as they are when it visits the chat.
JobReadsCaches ==
    LET c == Head(job_chats)
        seen == job_seen'[Len(job_seen')]
        did(api) == \E i \in 1..Len(NewJobCalls) : NewJobCalls[i].api = api
    IN  (seen.ok /\ ChatType(c) = "channel") =>
            /\ JobTitleDue(c) <=> did("set_chat_title")
            /\ JobPhotoDue(c) <=> did("delete_chat_photo")

IsGroupLike(c) == ChatType(c) \in GroupOrChannelKinds

\* No policy entry and no registry row is for a private chat, and no run of
\* the handler for an event of a private chat touches title or photo.
NoPrivateTarget ==
    /\ \A k \in DOMAIN locked_info_cache \cup no_photo_chats_cache : IsGroupLike(k)
    /\ \A k \in DOMAIN db.locked_group_info \cup db.no_photo_chats : IsGroupLike(k)
    /\ \A k \in db.known_chats : IsGroupLike(k)
    /\ (Handled /\ ~IsGroupLike(run.update.chat)) =>
          \A i \in 1..Len(run.calls) :
              run.calls[i].api \notin {"set_chat_title", "delete_chat_photo"}

\* The chats a command adds to the title locks or to the no-photo chats are
\* known chats at that moment.
TargetsAreKnown ==
    /\ (DOMAIN locked_info_cache' \ DOMAIN locked_info_cache) \subseteq db.known_chats
    /\ (no_photo_chats_cache' \ no_photo_chats_cache) \subseteq db.known_chats

WatchBounded ==
    /\ DOMAIN watch_left = watch_chats
    /\ \A c \in watch_chats : watch_left[c] \in 0..WATCH_QUOTA

\* The owner's /watch in a group-like chat arms the quota.
WatchArmed ==
    LET c == run'.update.chat
    IN  (/\ run'.handler = "/watch"
         /\ run'.update.from_user = OWNER_ID
         /\ IsGroupLike(c))
        => /\ c \in watch_chats'
           /\ watch_left'[c] = WATCH_QUOTA

\* What a run of the handler does with the watch of the event's chat.
WatchCounts ==
    LET c == run'.update.chat
        reports == {i \in 1..Len(run'.calls) : run'.calls[i].rule = 2}
    IN  /\ IF c \in watch_chats /\ watch_left[c] > 0
           THEN /\ Cardinality(reports) = 1
                /\ \A i \in reports :
                      /\ run'.calls[i].api = "send_message"
                      /\ run'.calls[i].chat = OWNER_ID
                /\ watch_chats' = watch_chats
                /\ watch_left' = [watch_left EXCEPT ![c] = @ - 1]
           ELSE /\ reports = {}
                /\ watch_chats' = watch_chats \ {c}
                /\ watch_left' = Without(watch_left, c)
        /\ {2, 4, 5, 6} \subseteq Range(run'.rules)

\* C22: after the owner's /watch the counter of the chat is 20; every later
\* event of the chat that the handler processes while the counter is positive
\* gets exactly one report to the owner and lowers the counter by one, also
\* when the report fails; the counter stays between 0 and 20; an event that
\* finds it at zero gets no report and removes the chat from watch_chats and
\* watch_left; and the watch never keeps the later rules from being evaluated.
C22_WatchQuota ==
    /\ []WatchBounded
    /\ [][/\ CommandStep => WatchArmed
          /\ (HandlerStep /\ ~run'.raised) => WatchCounts]_vars

\* The last report of a quota failed and the counter is at zero all the same.
C22_Witness ==
    /\ Processed
    /\ run.update.chat = -1
    /\ -1 \in watch_chats
    /\ watch_left[-1] = 0
    /\ \E i \in 1..Len(run.calls) : run.calls[i].rule = 2 /\ ~run.calls[i].ok
    /\ 6 \in RulesRun

\* ---------------------------------------------------------------- who writes the policy
\* The policy tables of the store: every table but the registry of known chats.
PolicyTables ==
    <<db.muted_users, db.banned_users, db.bot_muted_chats, db.locked_group_info,
      db.no_photo_chats, db.broadcast_lock_state, db.clean_info_state>>

\* The job took a turn in this step.
JobTurn == <<job_pc, job_chats, job_calls, job_seen>>' # <<job_pc, job_chats, job_calls, job_seen>>

\* C23: handle_all_messages and job_enforce_channels only read the policy:
\* no run of either changes a policy cache, a policy flag or a policy table
\* of the store; the handler writes nothing but the registry of known chats
\* and the watch state, the job writes nothing at all; whatever changes the
\* policy is a command handler run for the owner, or load_caches at startup.
C23_OnlyCommandsWritePolicy ==
    [][/\ HandlerStep =>
             /\ UNCHANGED <<caches, job>>
             /\ PolicyTables' = PolicyTables
             /\ db.known_chats \subseteq db'.known_chats
             /\ db'.known_chats \subseteq db.known_chats \cup {run'.update.chat}
       /\ JobTurn => UNCHANGED <<caches, db, watch, run>>
       /\ (caches' # caches \/ PolicyTables' # PolicyTables) =>
             \/ CommandStep /\ run'.update.from_user = OWNER_ID
             \/ run'.handler = "main"]_vars

\* The handler enforced a ban while every kind of policy is in force: the
\* caches are as the commands left them.
C23_Witness ==
    /\ Processed
    /\ Issued("ban_chat_member", 10)
    /\ banned_cache = {2}
    /\ muted_cache = {2}
    /\ bot_muted_chats_cache = {-1}
    /\ -2 \in DOMAIN locked_info_cache
    /\ chat_title[-2] = locked_info_cache[-2].title
    /\ clean_info_global

\* ---------------------------------------------------------------- cache equals store
\* Every policy cache holds what its table holds.
CachesEqualStore ==
    /\ muted_cache = db.muted_users
    /\ banned_cache = db.banned_users
    /\ bot_muted_chats_cache = db.bot_muted_chats
    /\ locked_info_cache = db.locked_group_info
    /\ no_photo_chats_cache = db.no_photo_chats
    /\ broadcast_lock_global = db.broadcast_lock_state
    /\ clean_info_global = db.clean_info_state

\* load_caches ran in this step.
Started == run'.handler = "main"

\* C24: the caches equal the store tables as long as no store write has
\* failed: they are equal at the first start, a step in which no statement
\* raised keeps them equal, and load_caches makes them equal whatever they
\* were, leaving the store as it is.
C24_CacheEqualsStore ==
    /\ CachesEqualStore
    /\ [][/\ (CachesEqualStore /\ ~run'.raised) => CachesEqualStore'
          /\ Started => (CachesEqualStore' /\ db' = db)]_vars

\* After a restart every policy structure is loaded, none of them empty.
C24_Witness ==
    /\ run.handler = "main"
    /\ CachesEqualStore
    /\ muted_cache = {2}
    /\ banned_cache = {2}
    /\ bot_muted_chats_cache = {-1}
    /\ DOMAIN locked_info_cache = {-2}
    /\ no_photo_chats_cache = {-2}
    /\ broadcast_lock_global
    /\ clean_info_global

\* ---------------------------------------------------------------- unlock
\* An unlock command of the owner answered in this step.
Unlocked(h) ==
    /\ CommandStep
    /\ run'.handler = h
    /\ run'.update.from_user = OWNER_ID
    /\ ~run'.raised

\* C25: once the owner's /unlockinfo has completed, locked_info_cache is
\* empty and the locked_group_info table holds no row; once /unlocknophoto
\* has completed, no_photo_chats_cache and the no_photo_chats table are
\* empty; and with no title lock in the cache neither the handler nor the
\* job issues a set_chat_title, with no no-photo chat no delete_chat_photo.
C25_UnlockClearsEverything ==
    [][/\ Unlocked("/unlockinfo") =>
             /\ locked_info_cache' = <<>>
             /\ db'.locked_group_info = <<>>
       /\ Unlocked("/unlocknophoto") =>
             /\ no_photo_chats_cache' = {}
             /\ db'.no_photo_chats = {}
       /\ (HandlerStep /\ locked_info_cache = <<>>) =>
             \A i \in 1..Len(run'.calls) : run'.calls[i].api # "set_chat_title"
       /\ (HandlerStep /\ no_photo_chats_cache = {}) =>
             \A i \in 1..Len(run'.calls) : run'.calls[i].api # "delete_chat_photo"
       /\ (JobVisit /\ locked_info_cache = <<>>) =>
             \A i \in 1..Len(NewJobCalls) : NewJobCalls[i].api # "set_chat_title"
       /\ (JobVisit /\ no_photo_chats_cache = {}) =>
             \A i \in 1..Len(NewJobCalls) : NewJobCalls[i].api # "delete_chat_photo"]_vars

\* ---------------------------------------------------------------- interleaving
\* A title or photo call carries what the caches hold when it is issued.
FromCaches(call) ==
    /\ call.api = "set_chat_title" =>
          /\ call.chat \in DOMAIN locked_info_cache
          /\ call.title = locked_info_cache[call.chat].title
    /\ call.api = "delete_chat_photo" => call.chat \in no_photo_chats_cache

\* C26: with commands and updates handled whenever the job is suspended in
\* get_chat or in set_chat_title, every set_chat_title of the job and of the
\* handler carries the title locked_info_cache holds for the chat when the
\* call is issued, every delete_chat_photo is for a chat that is in
\* no_photo_chats_cache at that moment, and a visit sets the title exactly
\* when the cache, as the commands have left it by then, holds a title that
\* differs from the live one.
C26_NoStaleEnforcement ==
    [][/\ \A i \in 1..Len(NewJobCalls) : FromCaches(NewJobCalls[i])
       /\ HandlerStep => \A i \in 1..Len(run'.calls) : FromCaches(run'.calls[i])
       /\ (JobVisit /\ job_seen'[Len(job_seen')].ok
                    /\ job_seen'[Len(job_seen')].type = "channel") =>
             LET c == job_seen'[Len(job_seen')].chat
             IN  JobTitleDue(c) <=>
                    \E i \in 1..Len(NewJobCalls) : NewJobCalls[i].api = "set_chat_title"]_vars

\* The owner's /unlocknophoto is answered while the sweep is suspended in
\* set_chat_title for the channel, whose photo get_chat has reported.
C26_Witness ==
    /\ job_pc = "title"
    /\ job_seen[Len(job_seen)].chat = -2
    /\ job_seen[Len(job_seen)].photo
    /\ chat_photo[-2]
    /\ run.handler = "/unlocknophoto"
    /\ run.update.from_user = OWNER_ID
    /\ no_photo_chats_cache = {}
====
